---- MODULE Spec2Model ----
(***************************************************************************)
(* CourseHub server: the enrollment admission protocol and the course      *)
(* routes of the Express/MongoDB server listed in src/README.md.           *)
(*                                                                         *)
(* Every route handler is an async function; between two awaits nothing    *)
(* else runs, and each awaited MongoDB call is applied atomically by the   *)
(* store.  An action of the model is therefore one MongoDB call together   *)
(* with the synchronous code that follows it up to the next call.          *)
(***************************************************************************)
EXTENDS Integers, FiniteSets, Sequences, Bags, TLC

\* ------------------------------------------------------------------ bounds
MaxSeats == 2          \* largest seat number a course starts with / is edited to
MaxRequests == 3       \* requests accepted in one behaviour
MaxRequestsOversell == 4   \* the same, where a seat is taken, given back and taken again
NSlots == 2            \* requests in flight at the same time

\* --------------------------------------------------------------- constants
EnrollmentLimit == 3   \* count >= 3 -> 'Enrollment limit'

Users == {"u1", "u2"}
Courses == {"c1", "c2"}
BadId == "zz"          \* a courseId for which ObjectId.isValid is false
Missing == ""          \* a falsy (absent or empty) body field
Title == "t"
Unset == "unset"       \* the course document has no status field
Statuses == {"approved", "pending", "rejected"}
Roles == {"student", "instructor", "admin"}
NoUser == "nouser"     \* no document in the users collection
NoRole == "norole"     \* a users document without a role field

IdPool == 1..(MaxRequestsOversell + 2)
NoId == 0

VARIABLES
    users,        \* usersCollection: email -> role, or NoUser
    courses,      \* coursesCollection: course id -> document
    enrollments,  \* enrollmentsCollection: set of documents
    req,          \* the requests in flight: a bag of request records
    started,      \* number of requests accepted so far
    initial,      \* history: seats and enrollmentCount of each course at the start
    reviews,      \* reviewsCollection: set of documents
    storageUp     \* FALSE while a call to the store throws

vars == <<users, courses, enrollments, req, started, initial, reviews, storageUp>>

\* ------------------------------------------------------------- documents
NoCourse == [exists |-> FALSE, seats |-> 0, enrollmentCount |-> 0,
             status |-> Unset, instructorEmail |-> Missing]

CourseDoc(s, n, st, owner) ==
    [exists |-> TRUE, seats |-> s, enrollmentCount |-> n,
     status |-> st, instructorEmail |-> owner]

EnrollmentDoc(id, u, c) == [id |-> id, userEmail |-> u, courseId |-> c]

\* values of a JSON body field that the handlers read as a number
Undefined == [t |-> "undefined", v |-> 0]      \* the field is absent
Text == [t |-> "text", v |-> 0]                \* a string that is no number
NaNValue == [t |-> "nan", v |-> 0]
Num(n) == [t |-> "num", v |-> n]               \* the integer n
Frac(n) == [t |-> "frac", v |-> n]             \* n.5 (-n.5 when n < 0, +-0.5 when n = 0)

\* req.body of the course routes, as far as the course document goes
NoBody == [seats |-> Undefined, enrollmentCount |-> Undefined,
           status |-> Missing, instructorEmail |-> Missing]

NewRequest == [pc |-> "new", kind |-> "none", caller |-> Missing, email |-> Missing,
               courseId |-> Missing, role |-> "none", body |-> NoBody,
               insertedId |-> NoId, result |-> "none", newRole |-> "none",
               courseTitle |-> Missing, failedAt |-> "none"]

\* ------------------------------------------------------- store operations
\* a find that never matches: the string courseId compared with an ObjectId
FindNothing(u, c) == {}

\* enrollmentsCollection.find({ userEmail, courseId })
FindEnrollments(u, c) == {e \in enrollments : e.userEmail = u /\ e.courseId = c}

\* enrollmentsCollection.countDocuments({ userEmail })
CountDocuments(u) == Cardinality({e \in enrollments : e.userEmail = u})

\* ObjectId.isValid(courseId)
ObjectIdIsValid(c) == c \in Courses

\* coursesCollection.findOne({ _id })
FindCourse(c) == IF c \in Courses THEN courses[c] ELSE NoCourse

\* the _id insertOne gives the new document: one no document and no request holds
FreshIds == {i \in IdPool : /\ \A e \in enrollments : e.id /= i
                            /\ \A q \in BagToSet(req) : q.insertedId /= i}
FreshId == CHOOSE i \in FreshIds : \A j \in FreshIds : i <= j

\* deleteOne(filter): the collections that can result when `found` matches
DeleteMany(found) == {enrollments \ found}

DeleteOne(found) == {enrollments \ {e} : e \in found}

\* $inc that leaves enrollmentCount alone
IncSeatsOnly(doc, ds, dn) == [doc EXCEPT !.seats = @ + ds]

\* { $inc: { seats: ds, enrollmentCount: dn } } applied to one document
Inc(doc, ds, dn) ==
    [doc EXCEPT !.seats = @ + ds, !.enrollmentCount = @ + dn]

\* the filter { _id: courseObjectId } alone, without the seats predicate
MatchesIdOnly(doc) == doc.exists

\* the filter { _id: courseObjectId, seats: { $gt: 0 } } matches the document
MatchesSeatsGtZero(doc) == doc.exists /\ doc.seats > 0

\* course.status !== 'approved', without the test for a missing field
NotApprovedStrict(doc) == doc.status /= "approved"

\* hasStatus && course.status !== 'approved'
NotApproved(doc) == doc.status /= Unset /\ doc.status /= "approved"

\* res.status(..).json(..): the request is answered
Respond(q, kind) == [q EXCEPT !.pc = "done", !.result = kind]

\* a store call throws and the handler's catch logs the error and answers 500
Throws(q) == [q EXCEPT !.pc = "done", !.result = "ServerError", !.failedAt = q.pc]

Goto(q, label) == [q EXCEPT !.pc = label]

InFlight == BagToSet(req)

\* request q goes on as q2
Replace(q, q2) == (req (-) SetToBag({q})) (+) SetToBag({q2})

\* the server takes one more request
Accept(q) ==
    /\ BagCardinality(req) < NSlots
    /\ req' = req (+) SetToBag({q})
    /\ started' = started + 1

\* ------------------------------------------------------------- middleware
\* a lookup that falls back to 'guest'
GetUserRoleOrGuest(email) ==
    IF users[email] \in {NoUser, NoRole} THEN "guest" ELSE users[email]

\* getUserRole: req.userRole = user?.role || 'student'
GetUserRole(email) ==
    IF users[email] \in {NoUser, NoRole} THEN "student" ELSE users[email]

\* getUserRole's catch: 500 'Server error checking user role.', no req.userRole
RoleLookupFailed(q) == [q EXCEPT !.pc = "done", !.result = "ServerError", !.role = "none"]

\* verifyAdmin lets the request through
VerifyAdmin(role) == role = "admin"

\* a gate that lets instructors only through
VerifyInstructorOnly(role) == role = "instructor"

\* verifyInstructor lets the request through
VerifyInstructor(role) == role = "instructor" \/ role = "admin"

\* ------------------------------------------------------------ conversions
\* parseInt(x, 10): digits up to the first other character, NaN without digits
ParseInt(x) == IF x.t \in {"num", "frac"} THEN Num(x.v) ELSE NaNValue

IsNaN(x) == x.t = "nan"

\* only isNaN(seatsNum) is tested
NaNSeatsOnly(x) == IsNaN(x)

\* isNaN(seatsNum) || seatsNum < 0
InvalidSeats(x) == IsNaN(x) \/ x.v < 0

\* a body passed on as it came
StripNothing(body) == body

\* delete updatedData._id, .instructorEmail, .createdAt, .enrollmentCount, .status, ...
StripProtected(body) ==
    [body EXCEPT !.instructorEmail = Missing, !.enrollmentCount = Undefined,
                 !.status = Missing]

\* { $set: { ...body } } applied to one course document
Set(doc, body) ==
    [doc EXCEPT
        !.seats = IF body.seats.t = "undefined" THEN @ ELSE body.seats.v,
        !.enrollmentCount =
            IF body.enrollmentCount.t = "undefined" THEN @ ELSE body.enrollmentCount.v,
        !.status = IF body.status = Missing THEN @ ELSE body.status,
        !.instructorEmail =
            IF body.instructorEmail = Missing THEN @ ELSE body.instructorEmail]

\* ----------------------------------------------------- POST /enrollments
\* verifyJWT, checkDbConnection, getUserRole, then the synchronous checks
StartEnroll(caller, userEmail, courseId, courseTitle) ==
    /\ LET q == [NewRequest EXCEPT !.kind = "enroll", !.caller = caller,
                                   !.role = GetUserRole(caller),
                                   !.email = userEmail, !.courseId = courseId,
                                   !.courseTitle = courseTitle]
       IN Accept(
            IF ~storageUp THEN RoleLookupFailed(q)
            ELSE IF userEmail = Missing \/ courseId = Missing \/ courseTitle = Missing
            THEN Respond(q, "InvalidInput")
            ELSE IF caller /= userEmail THEN Respond(q, "Forbidden")
            ELSE IF ~ObjectIdIsValid(courseId) THEN Respond(q, "InvalidInput")
            ELSE Goto(q, "E_findExisting"))
    /\ UNCHANGED <<users, courses, enrollments, initial, reviews, storageUp>>

\* existing = findOne({ userEmail, courseId })
EnrollFindExisting(q) ==
    /\ q.pc = "E_findExisting"
    /\ req' = Replace(q,
            IF ~storageUp THEN Throws(q)
            ELSE IF FindEnrollments(q.email, q.courseId) /= {}
            THEN Respond(q, "AlreadyEnrolled")
            ELSE Goto(q, "E_countDocuments"))
    /\ UNCHANGED <<users, courses, enrollments, started, initial, reviews, storageUp>>

\* count = countDocuments({ userEmail })
EnrollCountDocuments(q) ==
    /\ q.pc = "E_countDocuments"
    /\ req' = Replace(q,
            IF ~storageUp THEN Throws(q)
            ELSE IF CountDocuments(q.email) >= EnrollmentLimit
            THEN Respond(q, "QuotaExceeded")
            ELSE Goto(q, "E_findCourse"))
    /\ UNCHANGED <<users, courses, enrollments, started, initial, reviews, storageUp>>

\* course = findOne({ _id }), then the status check and the seats pre-check
EnrollFindCourse(q) ==
    /\ q.pc = "E_findCourse"
    /\ LET course == FindCourse(q.courseId)
       IN req' = Replace(q,
            IF ~storageUp THEN Throws(q)
            ELSE IF ~course.exists THEN Respond(q, "NotFound")
            ELSE IF NotApproved(course) THEN Respond(q, "CourseNotApproved")
            ELSE IF course.seats <= 0 THEN Respond(q, "NoSeatsAvailable")
            ELSE Goto(q, "E_insertOne"))
    /\ UNCHANGED <<users, courses, enrollments, started, initial, reviews, storageUp>>

\* enrollmentResult = insertOne({ userEmail, courseId, courseTitle, enrolledAt })
EnrollInsertOne(q) ==
    /\ q.pc = "E_insertOne"
    /\ IF ~storageUp
       THEN /\ enrollments' = enrollments
            /\ req' = Replace(q, Throws(q))
       ELSE /\ FreshIds /= {}
            /\ enrollments' = enrollments \cup {EnrollmentDoc(FreshId, q.email, q.courseId)}
            /\ req' = Replace(q, [q EXCEPT !.pc = "E_updateOne", !.insertedId = FreshId])
    /\ UNCHANGED <<users, courses, started, initial, reviews, storageUp>>

\* updateOne({ _id, seats: { $gt: 0 } }, { $inc: { seats: -1, enrollmentCount: 1 } })
EnrollUpdateOne(q) ==
    /\ q.pc = "E_updateOne"
    /\ LET c == q.courseId
       IN IF ~storageUp
          THEN /\ courses' = courses
               /\ req' = Replace(q, Throws(q))
          ELSE IF MatchesSeatsGtZero(courses[c])
          THEN /\ courses' = [courses EXCEPT ![c] = Inc(@, -1, 1)]
               /\ req' = Replace(q, Respond(q, "Enrolled"))
          ELSE /\ courses' = courses
               /\ req' = Replace(q, Goto(q, "E_deleteOne"))
    /\ UNCHANGED <<users, enrollments, started, initial, reviews, storageUp>>

\* a compensation whose error is swallowed: the call answers 201
EnrollDeleteSwallow(q) ==
    /\ q.pc = "E_deleteOne"
    /\ IF ~storageUp
       THEN /\ enrollments' = enrollments
            /\ req' = Replace(q, Respond(q, "Enrolled"))
       ELSE /\ enrollments' = {e \in enrollments : e.id /= q.insertedId}
            /\ req' = Replace(q, Respond(q, "SeatConflict"))
    /\ UNCHANGED <<users, courses, started, initial, reviews, storageUp>>

\* a compensation that answers without deleting
EnrollDeleteNone(q) ==
    /\ q.pc = "E_deleteOne"
    /\ req' = Replace(q, Respond(q, "SeatConflict"))
    /\ UNCHANGED <<users, courses, enrollments, started, initial, reviews, storageUp>>

\* modifiedCount === 0: deleteOne({ _id: enrollmentResult.insertedId })
EnrollDeleteOne(q) ==
    /\ q.pc = "E_deleteOne"
    /\ IF ~storageUp
       THEN /\ enrollments' = enrollments
            /\ req' = Replace(q, Throws(q))
       ELSE /\ enrollments' = {e \in enrollments : e.id /= q.insertedId}
            /\ req' = Replace(q, Respond(q, "SeatConflict"))
    /\ UNCHANGED <<users, courses, started, initial, reviews, storageUp>>

\* ------------------------------------- DELETE /enrollments/:email/:courseId
\* a route that does not compare the token's email with the parameter
StartUnenrollAnyone(caller, email, courseId) ==
    /\ LET q == [NewRequest EXCEPT !.kind = "unenroll", !.caller = caller,
                                   !.email = email, !.courseId = courseId]
       IN Accept(
            IF ~ObjectIdIsValid(courseId) THEN Respond(q, "InvalidInput")
            ELSE Goto(q, "U_deleteOne"))
    /\ UNCHANGED <<users, courses, enrollments, initial, reviews, storageUp>>

\* verifyJWT, checkDbConnection, then the synchronous checks
StartUnenroll(caller, email, courseId) ==
    /\ LET q == [NewRequest EXCEPT !.kind = "unenroll", !.caller = caller,
                                   !.email = email, !.courseId = courseId]
       IN Accept(
            IF caller /= email THEN Respond(q, "Forbidden")
            ELSE IF ~ObjectIdIsValid(courseId) THEN Respond(q, "InvalidInput")
            ELSE Goto(q, "U_deleteOne"))
    /\ UNCHANGED <<users, courses, enrollments, initial, reviews, storageUp>>

\* a handler that goes on to the release when deleteOne throws
UnenrollDeleteSwallow(q) ==
    /\ q.pc = "U_deleteOne"
    /\ LET found == FindEnrollments(q.email, q.courseId)
       IN IF ~storageUp
          THEN /\ enrollments' = enrollments
               /\ req' = Replace(q, Goto(q, "U_updateOne"))
          ELSE IF found = {}
          THEN /\ enrollments' = enrollments
               /\ req' = Replace(q, Respond(q, "NotFound"))
          ELSE /\ enrollments' \in DeleteOne(found)
               /\ req' = Replace(q, Goto(q, "U_updateOne"))
    /\ UNCHANGED <<users, courses, started, initial, reviews, storageUp>>

\* a handler that goes on to the release whatever deletedCount is
UnenrollAlwaysRelease(q) ==
    /\ q.pc = "U_deleteOne"
    /\ LET found == FindEnrollments(q.email, q.courseId)
       IN /\ enrollments' \in IF found = {} THEN {enrollments} ELSE DeleteOne(found)
          /\ req' = Replace(q, Goto(q, "U_updateOne"))
    /\ UNCHANGED <<users, courses, started, initial, reviews, storageUp>>

\* deleteOne({ userEmail, courseId }): removes one matching document, if any
UnenrollDeleteOne(q) ==
    /\ q.pc = "U_deleteOne"
    /\ LET found == FindEnrollments(q.email, q.courseId)
       IN IF ~storageUp
          THEN /\ enrollments' = enrollments
               /\ req' = Replace(q, Throws(q))
          ELSE IF found = {}
          THEN /\ enrollments' = enrollments
               /\ req' = Replace(q, Respond(q, "NotFound"))
          ELSE /\ enrollments' \in DeleteOne(found)
               /\ req' = Replace(q, Goto(q, "U_updateOne"))
    /\ UNCHANGED <<users, courses, started, initial, reviews, storageUp>>

\* updateOne({ _id }, { $inc: { seats: 1, enrollmentCount: -1 } })
\* a release that inserts the course when the filter matches none (upsert)
UnenrollUpsertRelease(q) ==
    /\ q.pc = "U_updateOne"
    /\ LET c == q.courseId
       IN IF ~storageUp
          THEN /\ courses' = courses
               /\ req' = Replace(q, Throws(q))
          ELSE /\ courses' = IF courses[c].exists
                             THEN [courses EXCEPT ![c] = Inc(@, 1, -1)]
                             ELSE [courses EXCEPT ![c] = CourseDoc(1, -1, Unset, NoUser)]
               /\ req' = Replace(q, Respond(q, "Unenrolled"))
    /\ UNCHANGED <<users, enrollments, started, initial, reviews, storageUp>>

UnenrollUpdateOne(q) ==
    /\ q.pc = "U_updateOne"
    /\ LET c == q.courseId
       IN IF ~storageUp
          THEN /\ courses' = courses
               /\ req' = Replace(q, Throws(q))
          ELSE /\ courses' = IF courses[c].exists
                             THEN [courses EXCEPT ![c] = Inc(@, 1, -1)]
                             ELSE courses
               /\ req' = Replace(q, Respond(q, "Unenrolled"))
    /\ UNCHANGED <<users, enrollments, started, initial, reviews, storageUp>>

\* ----------------------------------------------------------- POST /courses
\* verifyJWT, checkDbConnection, getUserRole, verifyInstructor, then the
\* synchronous checks; complete: courseTitle, image, duration and description
\* are there; price: the price field
StartCreateCourse(caller, complete, seats, price, instructorEmail) ==
    /\ LET role == GetUserRole(caller)
           q == [NewRequest EXCEPT !.kind = "create", !.caller = caller, !.role = role]
           finalInstructorEmail ==
               IF role = "instructor" THEN caller ELSE instructorEmail
       IN Accept(
            IF ~storageUp THEN RoleLookupFailed(q)
            ELSE IF ~VerifyInstructor(role) THEN Respond(q, "Forbidden")
            ELSE IF ~complete \/ seats.t = "undefined" \/ price.t = "undefined"
            THEN Respond(q, "InvalidInput")
            ELSE IF IsNaN(ParseInt(seats)) \/ price.t \notin {"num", "frac"}
                    \/ price.v < 0 \/ ParseInt(seats).v < 0
            THEN Respond(q, "InvalidInput")
            ELSE IF role = "admin" /\ instructorEmail = Missing
            THEN Respond(q, "InvalidInput")
            ELSE [q EXCEPT !.pc = "C_insertOne",
                           !.body = [NoBody EXCEPT
                                       !.seats = ParseInt(seats),
                                       !.instructorEmail = finalInstructorEmail]])
    /\ UNCHANGED <<users, courses, enrollments, initial, reviews, storageUp>>

\* an insertOne of a course document that has no status field
CreateWithoutStatus(q) ==
    /\ q.pc = "C_insertOne"
    /\ IF ~storageUp
       THEN /\ courses' = courses
            /\ req' = Replace(q, Throws(q))
       ELSE \E c \in Courses :
          /\ ~courses[c].exists
          /\ courses' = [courses EXCEPT ![c] =
                CourseDoc(q.body.seats.v, 0, Unset, q.body.instructorEmail)]
          /\ req' = Replace(q, [q EXCEPT !.pc = "done", !.result = "Created",
                                         !.courseId = c])
    /\ UNCHANGED <<users, enrollments, started, initial, reviews, storageUp>>

\* insertOne(newCourse): enrollmentCount 0, status 'pending', a new _id
CreateInsertOne(q) ==
    /\ q.pc = "C_insertOne"
    /\ IF ~storageUp
       THEN /\ courses' = courses
            /\ req' = Replace(q, Throws(q))
       ELSE \E c \in Courses :
          /\ ~courses[c].exists
          /\ courses' = [courses EXCEPT ![c] =
                CourseDoc(q.body.seats.v, 0, "pending", q.body.instructorEmail)]
          /\ req' = Replace(q, [q EXCEPT !.pc = "done", !.result = "Created",
                                         !.courseId = c])
    /\ UNCHANGED <<users, enrollments, started, initial, reviews, storageUp>>

\* --------------------------------------------------------- PUT /course/:id
StartUpdateCourse(caller, id, body) ==
    /\ LET role == GetUserRole(caller)
           q == [NewRequest EXCEPT !.kind = "update", !.caller = caller,
                                   !.role = role, !.courseId = id, !.body = body]
       IN Accept(
            IF ~storageUp THEN RoleLookupFailed(q)
            ELSE IF ~VerifyInstructor(role) THEN Respond(q, "Forbidden")
            ELSE IF ~ObjectIdIsValid(id) THEN Respond(q, "InvalidInput")
            ELSE Goto(q, "P_findOne"))
    /\ UNCHANGED <<users, courses, enrollments, initial, reviews, storageUp>>

\* existingCourse = findOne({ _id }), the ownership check, the field
\* stripping and the seats check
UpdateFindOne(q) ==
    /\ q.pc = "P_findOne"
    /\ LET existingCourse == FindCourse(q.courseId)
           updatedData == StripProtected(q.body)
           seatsNum == ParseInt(updatedData.seats)
       IN req' = Replace(q,
            IF ~storageUp THEN Throws(q)
            ELSE IF ~existingCourse.exists THEN Respond(q, "NotFound")
            ELSE IF q.role = "instructor" /\ existingCourse.instructorEmail /= q.caller
            THEN Respond(q, "Forbidden")
            ELSE IF updatedData.seats.t /= "undefined" /\ InvalidSeats(seatsNum)
            THEN Respond(q, "InvalidInput")
            ELSE [q EXCEPT !.pc = "P_updateOne",
                           !.body = IF updatedData.seats.t /= "undefined"
                                    THEN [updatedData EXCEPT !.seats = seatsNum]
                                    ELSE updatedData])
    /\ UNCHANGED <<users, courses, enrollments, started, initial, reviews, storageUp>>

\* updateOne({ _id }, { $set: { ...updatedData, updatedAt } })
UpdateUpdateOne(q) ==
    /\ q.pc = "P_updateOne"
    /\ LET c == q.courseId
       IN IF ~storageUp
          THEN /\ courses' = courses
               /\ req' = Replace(q, Throws(q))
          ELSE IF courses[c].exists
          THEN /\ courses' = [courses EXCEPT ![c] = Set(@, q.body)]
               /\ req' = Replace(q, Respond(q, "Updated"))
          ELSE /\ courses' = courses
               /\ req' = Replace(q, Respond(q, "NotFound"))
    /\ UNCHANGED <<users, enrollments, started, initial, reviews, storageUp>>

\* ------------------------------------------ PATCH /admin/courses/:id/status
StartPatchStatus(caller, id, status) ==
    /\ LET role == GetUserRole(caller)
           q == [NewRequest EXCEPT !.kind = "status", !.caller = caller, !.role = role,
                                   !.courseId = id,
                                   !.body = [NoBody EXCEPT !.status = status]]
       IN Accept(
            IF ~storageUp THEN RoleLookupFailed(q)
            ELSE IF ~VerifyAdmin(role) THEN Respond(q, "Forbidden")
            ELSE IF status \notin Statuses THEN Respond(q, "InvalidInput")
            ELSE IF ~ObjectIdIsValid(id) THEN Respond(q, "InvalidInput")
            ELSE Goto(q, "S_updateOne"))
    /\ UNCHANGED <<users, courses, enrollments, initial, reviews, storageUp>>

\* updateOne({ _id }, { $set: { status } })
PatchUpdateOne(q) ==
    /\ q.pc = "S_updateOne"
    /\ LET c == q.courseId
       IN IF ~storageUp
          THEN /\ courses' = courses
               /\ req' = Replace(q, Throws(q))
          ELSE IF courses[c].exists
          THEN /\ courses' = [courses EXCEPT ![c] = Set(@, q.body)]
               /\ req' = Replace(q, Respond(q, "StatusUpdated"))
          ELSE /\ courses' = courses
               /\ req' = Replace(q, Respond(q, "NotFound"))
    /\ UNCHANGED <<users, enrollments, started, initial, reviews, storageUp>>

\* ------------------------------------------------------ DELETE /courses/:id
\* verifyJWT, checkDbConnection, getUserRole, verifyInstructor, the id check
StartDeleteCourse(caller, id) ==
    /\ LET role == GetUserRole(caller)
           q == [NewRequest EXCEPT !.kind = "delete", !.caller = caller,
                                   !.role = role, !.courseId = id]
       IN Accept(
            IF ~storageUp THEN RoleLookupFailed(q)
            ELSE IF ~VerifyInstructor(role) THEN Respond(q, "Forbidden")
            ELSE IF ~ObjectIdIsValid(id) THEN Respond(q, "InvalidInput")
            ELSE Goto(q, "D_findOne"))
    /\ UNCHANGED <<users, courses, enrollments, initial, reviews, storageUp>>

\* existingCourse = findOne({ _id }), then the ownership check
DeleteFindOne(q) ==
    /\ q.pc = "D_findOne"
    /\ LET existingCourse == FindCourse(q.courseId)
       IN req' = Replace(q,
            IF ~storageUp THEN Throws(q)
            ELSE IF ~existingCourse.exists THEN Respond(q, "NotFound")
            ELSE IF q.role = "instructor" /\ existingCourse.instructorEmail /= q.caller
            THEN Respond(q, "Forbidden")
            ELSE Goto(q, "D_deleteOne"))
    /\ UNCHANGED <<users, courses, enrollments, started, initial, reviews, storageUp>>

\* coursesCollection.deleteOne({ _id }); deletedCount 0 -> 404 'Delete failed'
DeleteDeleteOne(q) ==
    /\ q.pc = "D_deleteOne"
    /\ LET c == q.courseId
       IN IF ~storageUp
          THEN /\ courses' = courses
               /\ req' = Replace(q, Throws(q))
          ELSE IF courses[c].exists
          THEN /\ courses' = [courses EXCEPT ![c] = NoCourse]
               /\ req' = Replace(q, Goto(q, "D_deleteEnrollments"))
          ELSE /\ courses' = courses
               /\ req' = Replace(q, Respond(q, "NotFound"))
    /\ UNCHANGED <<users, enrollments, started, initial, reviews, storageUp>>

\* a cascade that leaves the enrollments in place
DeleteNoEnrollments(q) ==
    /\ q.pc = "D_deleteEnrollments"
    /\ req' = Replace(q, Goto(q, "D_deleteReviews"))
    /\ UNCHANGED <<users, courses, enrollments, started, initial, reviews, storageUp>>

\* enrollmentsCollection.deleteMany({ courseId: id })
DeleteEnrollments(q) ==
    /\ q.pc = "D_deleteEnrollments"
    /\ IF ~storageUp
       THEN /\ enrollments' = enrollments
            /\ req' = Replace(q, Throws(q))
       ELSE /\ enrollments' = {e \in enrollments : e.courseId /= q.courseId}
            /\ req' = Replace(q, Goto(q, "D_deleteReviews"))
    /\ UNCHANGED <<users, courses, started, initial, reviews, storageUp>>

\* reviewsCollection.deleteMany({ courseObjectId }), then the answer
DeleteReviews(q) ==
    /\ q.pc = "D_deleteReviews"
    /\ IF ~storageUp
       THEN /\ reviews' = reviews
            /\ req' = Replace(q, Throws(q))
       ELSE /\ reviews' = {r \in reviews : r.courseId /= q.courseId}
            /\ req' = Replace(q, Respond(q, "Deleted"))
    /\ UNCHANGED <<users, courses, enrollments, started, initial, storageUp>>

\* ------------------------------------------------ POST /courses/:id/reviews
ReviewDoc(id, u, c) == [id |-> id, userEmail |-> u, courseId |-> c]

\* reviewsCollection.find({ userEmail, courseObjectId })
FindReviews(u, c) == {r \in reviews : r.userEmail = u /\ r.courseId = c}

\* the _id insertOne gives the new review
FreshReviewIds == {i \in IdPool : \A r \in reviews : r.id /= i}
FreshReviewId == CHOOSE i \in FreshReviewIds : \A j \in FreshReviewIds : i <= j

\* verifyJWT, checkDbConnection, then the id, rating and comment checks;
\* valid: rating is a number from 1 to 5 and comment is a non-blank string
StartReview(caller, id, valid) ==
    /\ LET q == [NewRequest EXCEPT !.kind = "review", !.caller = caller,
                                   !.email = caller, !.courseId = id]
       IN Accept(
            IF ~ObjectIdIsValid(id) THEN Respond(q, "InvalidInput")
            ELSE IF ~valid THEN Respond(q, "InvalidInput")
            ELSE Goto(q, "V_findEnrollment"))
    /\ UNCHANGED <<users, courses, enrollments, initial, reviews, storageUp>>

\* enrollment = findOne({ userEmail, courseId }): 403 'Must be enrolled'
ReviewFindEnrollment(q) ==
    /\ q.pc = "V_findEnrollment"
    /\ req' = Replace(q,
            IF ~storageUp THEN Throws(q)
            ELSE IF FindEnrollments(q.email, q.courseId) = {}
            THEN Respond(q, "Forbidden")
            ELSE Goto(q, "V_findReview"))
    /\ UNCHANGED <<users, courses, enrollments, started, initial, reviews, storageUp>>

\* existingReview = findOne({ userEmail, courseObjectId })
ReviewFindReview(q) ==
    /\ q.pc = "V_findReview"
    /\ req' = Replace(q,
            IF ~storageUp THEN Throws(q)
            ELSE IF FindReviews(q.email, q.courseId) /= {}
            THEN Respond(q, "AlreadyReviewed")
            ELSE Goto(q, "V_findUser"))
    /\ UNCHANGED <<users, courses, enrollments, started, initial, reviews, storageUp>>

\* userProfile = usersCollection.findOne({ email }): name and photo only
ReviewFindUser(q) ==
    /\ q.pc = "V_findUser"
    /\ req' = Replace(q, IF ~storageUp THEN Throws(q) ELSE Goto(q, "V_insertOne"))
    /\ UNCHANGED <<users, courses, enrollments, started, initial, reviews, storageUp>>

\* reviewsCollection.insertOne(newReview)
ReviewInsertOne(q) ==
    /\ q.pc = "V_insertOne"
    /\ IF ~storageUp
       THEN /\ reviews' = reviews
            /\ req' = Replace(q, Throws(q))
       ELSE /\ FreshReviewIds /= {}
            /\ reviews' = reviews \cup {ReviewDoc(FreshReviewId, q.email, q.courseId)}
            /\ req' = Replace(q, Respond(q, "Reviewed"))
    /\ UNCHANGED <<users, courses, enrollments, started, initial, storageUp>>

\* ---------------------------------------------------------- PUT /users/:email
\* verifyJWT, checkDbConnection, then the synchronous checks; complete: name
\* and photoURL are there
StartPutUser(caller, emailParam, complete) ==
    /\ LET q == [NewRequest EXCEPT !.kind = "profile", !.caller = caller,
                                   !.email = emailParam]
       IN Accept(
            IF caller /= emailParam THEN Respond(q, "Forbidden")
            ELSE IF ~complete THEN Respond(q, "InvalidInput")
            ELSE Goto(q, "W_updateOne"))
    /\ UNCHANGED <<users, courses, enrollments, initial, reviews, storageUp>>

\* an update that sets role 'student' on every write
UpsertAlways(email) == [users EXCEPT ![email] = "student"]

\* a $set that names no role, and $setOnInsert { role: 'student' }, with upsert
Upsert(email) ==
    IF users[email] = NoUser THEN [users EXCEPT ![email] = "student"] ELSE users

\* updateOne(filter, updateDoc, { upsert: true })
PutUserUpdateOne(q) ==
    /\ q.pc = "W_updateOne"
    /\ IF ~storageUp
       THEN /\ users' = users
            /\ req' = Replace(q, Throws(q))
       ELSE /\ users' = Upsert(q.email)
            /\ req' = Replace(q, Respond(q, IF users[q.email] = NoUser
                                            THEN "ProfileCreated"
                                            ELSE "ProfileUpdated"))
    /\ UNCHANGED <<courses, enrollments, started, initial, reviews, storageUp>>

\* ------------------------------------------- PATCH /admin/users/:email/role
RoleInputs == Roles \cup {"guest"}

StartSetRole(caller, email, role) ==
    /\ LET callerRole == GetUserRole(caller)
           q == [NewRequest EXCEPT !.kind = "setRole", !.caller = caller,
                                   !.role = callerRole, !.email = email,
                                   !.newRole = role]
       IN Accept(
            IF ~storageUp THEN RoleLookupFailed(q)
            ELSE IF ~VerifyAdmin(callerRole) THEN Respond(q, "Forbidden")
            ELSE IF role \notin Roles THEN Respond(q, "InvalidInput")
            ELSE Goto(q, "R_updateOne"))
    /\ UNCHANGED <<users, courses, enrollments, initial, reviews, storageUp>>

\* a $set that writes nothing
SetNothing(email, role) == users

\* { $set: { role: role } } applied to the document of email
SetRole(email, role) == [users EXCEPT ![email] = role]

\* updateOne({ email }, { $set: { role } }); matchedCount 0 -> 404
SetRoleUpdateOne(q) ==
    /\ q.pc = "R_updateOne"
    /\ IF ~storageUp
       THEN /\ users' = users
            /\ req' = Replace(q, Throws(q))
       ELSE IF users[q.email] = NoUser
       THEN /\ users' = users
            /\ req' = Replace(q, Respond(q, "NotFound"))
       ELSE /\ users' = SetRole(q.email, q.newRole)
            /\ req' = Replace(q, Respond(q, "RoleUpdated"))
    /\ UNCHANGED <<courses, enrollments, started, initial, reviews, storageUp>>

\* ----------------------------------------------------------- GET /courses
NoToken == "notoken"    \* req.cookies.token is absent
BadToken == "badtoken"  \* jwt.verify gives an error: forged or expired
Tokens == Users \cup {NoToken, BadToken}    \* a user: a valid token of theirs

\* a lookup whose catch is never entered
StoredRoleOrStudent(email) == GetUserRole(email)

\* getRoleIfAuthenticated with a valid token: the lookup and its catch
RoleIfAuthenticated(email) ==
    IF storageUp THEN GetUserRole(email) ELSE "guest"

\* checkDbConnection, getRoleIfAuthenticated up to the lookup
StartListCourses(token) ==
    /\ LET q == [NewRequest EXCEPT !.kind = "list"]
       IN Accept(
            IF token \in {NoToken, BadToken}
            THEN [q EXCEPT !.pc = "L_find", !.role = "guest"]
            ELSE [q EXCEPT !.pc = "L_findUser", !.caller = token])
    /\ UNCHANGED <<users, courses, enrollments, initial, reviews, storageUp>>

\* user = usersCollection.findOne({ email }), then next()
ListFindUser(q) ==
    /\ q.pc = "L_findUser"
    /\ req' = Replace(q, [q EXCEPT !.pc = "L_find",
                                   !.role = RoleIfAuthenticated(q.caller)])
    /\ UNCHANGED <<users, courses, enrollments, started, initial, reviews, storageUp>>

\* the handler: coursesCollection.find(query).sort(..).toArray()
ListFind(q) ==
    /\ q.pc = "L_find"
    /\ req' = Replace(q, IF ~storageUp THEN Throws(q) ELSE Respond(q, "Listed"))
    /\ UNCHANGED <<users, courses, enrollments, started, initial, reviews, storageUp>>

\* ------------------------------------- POST /enrollments of src/index.js
\* verifyJWT, then the email check
SimpleStartEnroll(caller, userEmail, courseId) ==
    /\ LET q == [NewRequest EXCEPT !.kind = "enrollSimple", !.caller = caller,
                                   !.email = userEmail, !.courseId = courseId]
       IN Accept(
            IF caller /= userEmail THEN Respond(q, "Forbidden")
            ELSE Goto(q, "X_findExisting"))
    /\ UNCHANGED <<users, courses, enrollments, initial, reviews, storageUp>>

\* existing = findOne({ userEmail, courseId })
SimpleFindExisting(q) ==
    /\ q.pc = "X_findExisting"
    /\ req' = Replace(q,
            IF ~storageUp THEN Throws(q)
            ELSE IF FindEnrollments(q.email, q.courseId) /= {}
            THEN Respond(q, "AlreadyEnrolled")
            ELSE Goto(q, "X_find"))
    /\ UNCHANGED <<users, courses, enrollments, started, initial, reviews, storageUp>>

\* userEnrollments = find({ userEmail }).toArray()
SimpleFind(q) ==
    /\ q.pc = "X_find"
    /\ req' = Replace(q,
            IF ~storageUp THEN Throws(q)
            ELSE IF Cardinality({e \in enrollments : e.userEmail = q.email})
                        >= EnrollmentLimit
            THEN Respond(q, "QuotaExceeded")
            ELSE Goto(q, "X_findCourse"))
    /\ UNCHANGED <<users, courses, enrollments, started, initial, reviews, storageUp>>

\* course = findOne({ _id: new ObjectId(courseId) }), then the seats check;
\* new ObjectId throws on a malformed id, inside the try
SimpleFindCourse(q) ==
    /\ q.pc = "X_findCourse"
    /\ LET course == FindCourse(q.courseId)
       IN req' = Replace(q,
            IF ~ObjectIdIsValid(q.courseId) \/ ~storageUp THEN Throws(q)
            ELSE IF ~course.exists THEN Respond(q, "NotFound")
            ELSE IF course.seats <= 0 THEN Respond(q, "NoSeatsAvailable")
            ELSE Goto(q, "X_insertOne"))
    /\ UNCHANGED <<users, courses, enrollments, started, initial, reviews, storageUp>>

\* result = insertOne({ userEmail, courseId, courseTitle, enrolledAt })
SimpleInsertOne(q) ==
    /\ q.pc = "X_insertOne"
    /\ IF ~storageUp
       THEN /\ enrollments' = enrollments
            /\ req' = Replace(q, Throws(q))
       ELSE /\ FreshIds /= {}
            /\ enrollments' = enrollments \cup {EnrollmentDoc(FreshId, q.email, q.courseId)}
            /\ req' = Replace(q, [q EXCEPT !.pc = "X_updateOne", !.insertedId = FreshId])
    /\ UNCHANGED <<users, courses, started, initial, reviews, storageUp>>

\* updateOne({ _id }, { $inc: { seats: -1 } })
SimpleUpdateOne(q) ==
    /\ q.pc = "X_updateOne"
    /\ LET c == q.courseId
       IN IF ~storageUp
          THEN /\ courses' = courses
               /\ req' = Replace(q, Throws(q))
          ELSE /\ courses' = IF courses[c].exists
                             THEN [courses EXCEPT ![c] = Inc(@, -1, 0)]
                             ELSE courses
               /\ req' = Replace(q, Respond(q, "Enrolled"))
    /\ UNCHANGED <<users, enrollments, started, initial, reviews, storageUp>>

\* ------------------------------------------------------------- the store
\* calls to the store start to throw
StorageFails ==
    /\ storageUp
    /\ storageUp' = FALSE
    /\ UNCHANGED <<users, courses, enrollments, req, started, initial, reviews>>

\* calls to the store go through again
StorageRecovers ==
    /\ ~storageUp
    /\ storageUp' = TRUE
    /\ UNCHANGED <<users, courses, enrollments, req, started, initial, reviews>>

\* the response has been sent and the request is over
Finish(q) ==
    /\ q.pc = "done"
    /\ req' = req (-) SetToBag({q})
    /\ UNCHANGED <<users, courses, enrollments, started, initial, reviews, storageUp>>

\* a response, once written, leaves before the server runs another handler
NoResponsePending == \A q \in InFlight : q.pc /= "done"

\* ------------------------------------------------------------ initial state
\* the enrollments already in the store: none, or one admitted user
InitialEnrollments ==
    {{}} \cup {{EnrollmentDoc(MaxRequestsOversell + 2, u, c)} : u \in Users, c \in Courses}

\* a store as earlier requests and the seed script leave it, nothing in flight
InitStore ==
    /\ enrollments \in InitialEnrollments
    /\ courses \in [Courses -> {CourseDoc(s, n, st, o) :
                        s \in 0..MaxSeats, n \in 0..1,
                        st \in Statuses \cup {Unset}, o \in {"u1"}}
                    \cup {NoCourse}]
    /\ \A c \in Courses : courses[c].exists =>
          courses[c].enrollmentCount =
              Cardinality({e \in enrollments : e.courseId = c})
    /\ \A e \in enrollments : courses[e.courseId].exists
    /\ initial = [c \in Courses |->
                    [seats |-> courses[c].seats,
                     enrollmentCount |-> courses[c].enrollmentCount]]
    /\ req = EmptyBag
    /\ started = 0
    /\ reviews = {}
    /\ storageUp = TRUE

EnrollSteps ==
    \/ \E q \in InFlight : EnrollFindExisting(q)
    \/ \E q \in InFlight : EnrollCountDocuments(q)
    \/ \E q \in InFlight : EnrollFindCourse(q)
    \/ \E q \in InFlight : EnrollInsertOne(q)
    \/ \E q \in InFlight : EnrollUpdateOne(q)
    \/ \E q \in InFlight : EnrollDeleteOne(q)

\* the number fields a client may send
NumberInputs ==
    {Undefined, Text, Num(-1), Num(0), Num(MaxSeats), Frac(0), Frac(-1)}

UpdateBodies ==
    {[NoBody EXCEPT !.seats = x] : x \in NumberInputs}
    \cup {[seats |-> Undefined, enrollmentCount |-> Num(0),
           status |-> "approved", instructorEmail |-> "u2"]}

StatusInputs == Statuses \cup {"archived"}

\* ------------------------------------------------------- the whole server
Init ==
    /\ InitStore
    /\ users = [u \in Users |-> IF u = "u1" THEN "instructor" ELSE "admin"]
    /\ enrollments = {}
    /\ courses["c1"].exists /\ courses["c1"].seats = 1
    /\ courses["c1"].status \in {"approved", "pending"}
    /\ ~courses["c2"].exists

Next ==
    \/ \E q \in InFlight : Finish(q)
    \/ /\ NoResponsePending /\ started < MaxRequests
       /\ \E u \in Users, c \in Courses : StartEnroll(u, u, c, Title)
    \/ /\ NoResponsePending /\ started < MaxRequests
       /\ \E u \in Users, c \in Courses : StartUnenroll(u, u, c)
    \/ /\ NoResponsePending /\ started < MaxRequests
       /\ \E caller \in Users, seats \in NumberInputs, o \in {Missing, "u2"} :
             StartCreateCourse(caller, TRUE, seats, Num(1), o)
    \/ /\ NoResponsePending /\ started < MaxRequests
       /\ \E caller \in Users, c \in Courses, body \in UpdateBodies :
             StartUpdateCourse(caller, c, body)
    \/ /\ NoResponsePending /\ started < MaxRequests
       /\ \E caller \in Users, c \in Courses, st \in StatusInputs :
             StartPatchStatus(caller, c, st)
    \/ NoResponsePending /\ \E q \in InFlight : EnrollFindExisting(q)
    \/ NoResponsePending /\ \E q \in InFlight : EnrollCountDocuments(q)
    \/ NoResponsePending /\ \E q \in InFlight : EnrollFindCourse(q)
    \/ NoResponsePending /\ \E q \in InFlight : EnrollInsertOne(q)
    \/ NoResponsePending /\ \E q \in InFlight : EnrollUpdateOne(q)
    \/ NoResponsePending /\ \E q \in InFlight : EnrollDeleteOne(q)
    \/ NoResponsePending /\ \E q \in InFlight : UnenrollDeleteOne(q)
    \/ NoResponsePending /\ \E q \in InFlight : UnenrollUpdateOne(q)
    \/ NoResponsePending /\ \E q \in InFlight : CreateInsertOne(q)
    \/ NoResponsePending /\ \E q \in InFlight : UpdateFindOne(q)
    \/ NoResponsePending /\ \E q \in InFlight : UpdateUpdateOne(q)
    \/ NoResponsePending /\ \E q \in InFlight : PatchUpdateOne(q)

Spec == Init /\ [][Next]_vars

\* ------------------------------------------- Enroll and Unenroll requests
InitEU ==
    /\ InitStore
    /\ users = [u \in Users |-> "student"]
    /\ enrollments \in {{}, {EnrollmentDoc(MaxRequestsOversell + 2, "u1", "c1")}}
    /\ \A c \in Courses : courses[c].exists /\ courses[c].status = "approved"
    /\ courses["c2"].seats = 1

NextEU ==
    \/ \E q \in InFlight : Finish(q)
    \/ /\ NoResponsePending /\ started < MaxRequests
       /\ \E caller \in Users, u \in Users, c \in Courses \cup {BadId},
             t \in {Title, Missing} :
             StartEnroll(caller, u, c, t)
    \/ /\ NoResponsePending /\ started < MaxRequests
       /\ \E caller \in Users, u \in Users, c \in Courses \cup {BadId} :
             StartUnenroll(caller, u, c)
    \/ NoResponsePending /\ \E q \in InFlight : EnrollFindExisting(q)
    \/ NoResponsePending /\ \E q \in InFlight : EnrollCountDocuments(q)
    \/ NoResponsePending /\ \E q \in InFlight : EnrollFindCourse(q)
    \/ NoResponsePending /\ \E q \in InFlight : EnrollInsertOne(q)
    \/ NoResponsePending /\ \E q \in InFlight : EnrollUpdateOne(q)
    \/ NoResponsePending /\ \E q \in InFlight : EnrollDeleteOne(q)
    \/ NoResponsePending /\ \E q \in InFlight : UnenrollDeleteOne(q)
    \/ NoResponsePending /\ \E q \in InFlight : UnenrollUpdateOne(q)

SpecEU == InitEU /\ [][NextEU]_vars

\* the same requests, one more of them
NextOversell ==
    \/ \E q \in InFlight : Finish(q)
    \/ /\ NoResponsePending /\ started < MaxRequestsOversell
       /\ \E u \in Users, c \in Courses : StartEnroll(u, u, c, Title)
    \/ /\ NoResponsePending /\ started < MaxRequestsOversell
       /\ \E u \in Users, c \in Courses : StartUnenroll(u, u, c)
    \/ NoResponsePending /\ \E q \in InFlight : EnrollFindExisting(q)
    \/ NoResponsePending /\ \E q \in InFlight : EnrollCountDocuments(q)
    \/ NoResponsePending /\ \E q \in InFlight : EnrollFindCourse(q)
    \/ NoResponsePending /\ \E q \in InFlight : EnrollInsertOne(q)
    \/ NoResponsePending /\ \E q \in InFlight : EnrollUpdateOne(q)
    \/ NoResponsePending /\ \E q \in InFlight : EnrollDeleteOne(q)
    \/ NoResponsePending /\ \E q \in InFlight : UnenrollDeleteOne(q)
    \/ NoResponsePending /\ \E q \in InFlight : UnenrollUpdateOne(q)

SpecOversell == InitEU /\ [][NextOversell]_vars

\* ------------------- Enroll and Unenroll next to course creation and update
InitCap ==
    /\ InitStore
    /\ users \in {[u \in Users |-> IF u = "u1" THEN "instructor" ELSE r] :
                    r \in {"student", "admin"}}
    /\ enrollments = {}
    /\ courses["c1"].exists /\ courses["c1"].status = "approved"
    /\ courses["c1"].seats = 1
    /\ ~courses["c2"].exists

NextCap ==
    \/ \E q \in InFlight : Finish(q)
    \/ /\ NoResponsePending /\ started < MaxRequests
       /\ \E u \in Users, c \in Courses : StartEnroll(u, u, c, Title)
    \/ /\ NoResponsePending /\ started < MaxRequests
       /\ \E u \in Users, c \in Courses : StartUnenroll(u, u, c)
    \/ /\ NoResponsePending /\ started < MaxRequests
       /\ \E caller \in Users, complete \in BOOLEAN, seats \in NumberInputs,
             price \in {Undefined, Num(-1), Num(1)}, o \in {Missing, "u2"} :
             StartCreateCourse(caller, complete, seats, price, o)
    \/ /\ NoResponsePending /\ started < MaxRequests
       /\ \E caller \in Users, c \in Courses \cup {BadId}, body \in UpdateBodies :
             StartUpdateCourse(caller, c, body)
    \/ NoResponsePending /\ \E q \in InFlight : EnrollFindExisting(q)
    \/ NoResponsePending /\ \E q \in InFlight : EnrollCountDocuments(q)
    \/ NoResponsePending /\ \E q \in InFlight : EnrollFindCourse(q)
    \/ NoResponsePending /\ \E q \in InFlight : EnrollInsertOne(q)
    \/ NoResponsePending /\ \E q \in InFlight : EnrollUpdateOne(q)
    \/ NoResponsePending /\ \E q \in InFlight : EnrollDeleteOne(q)
    \/ NoResponsePending /\ \E q \in InFlight : UnenrollDeleteOne(q)
    \/ NoResponsePending /\ \E q \in InFlight : UnenrollUpdateOne(q)
    \/ NoResponsePending /\ \E q \in InFlight : CreateInsertOne(q)
    \/ NoResponsePending /\ \E q \in InFlight : UpdateFindOne(q)
    \/ NoResponsePending /\ \E q \in InFlight : UpdateUpdateOne(q)

SpecCap == InitCap /\ [][NextCap]_vars

\* --------------------- Enroll requests next to an admin's status changes
InitStatus ==
    /\ InitStore
    /\ users = [u \in Users |-> IF u = "u1" THEN NoUser ELSE "admin"]
    /\ enrollments = {}
    /\ courses["c1"].exists
    /\ ~courses["c2"].exists

NextStatus ==
    \/ \E q \in InFlight : Finish(q)
    \/ /\ NoResponsePending /\ started < MaxRequests
       /\ \E u \in Users, c \in Courses : StartEnroll(u, u, c, Title)
    \/ /\ NoResponsePending /\ started < MaxRequests
       /\ \E caller \in Users, c \in Courses \cup {BadId}, st \in StatusInputs :
             StartPatchStatus(caller, c, st)
    \/ NoResponsePending /\ \E q \in InFlight : EnrollFindExisting(q)
    \/ NoResponsePending /\ \E q \in InFlight : EnrollCountDocuments(q)
    \/ NoResponsePending /\ \E q \in InFlight : EnrollFindCourse(q)
    \/ NoResponsePending /\ \E q \in InFlight : EnrollInsertOne(q)
    \/ NoResponsePending /\ \E q \in InFlight : EnrollUpdateOne(q)
    \/ NoResponsePending /\ \E q \in InFlight : EnrollDeleteOne(q)
    \/ NoResponsePending /\ \E q \in InFlight : PatchUpdateOne(q)

SpecStatus == InitStatus /\ [][NextStatus]_vars

\* ------------------------------------------------ one request at a time
\* A request is taken only when none is in flight.  The conditional update of
\* an Enroll then always matches, so the compensating deleteOne has no step
\* here: C9_Decision states that no request ever waits for it.
InitSeq ==
    /\ InitStore
    /\ users = [u \in Users |-> IF u = "u1" THEN NoRole ELSE "admin"]
    /\ courses["c1"].exists
    /\ courses["c2"].exists => courses["c2"].status = "approved" /\ courses["c2"].seats = 1

NextSeq ==
    \/ \E q \in InFlight : Finish(q)
    \/ /\ req = EmptyBag /\ started < MaxRequests
       /\ \E u \in Users, c \in Courses : StartEnroll(u, u, c, Title)
    \/ /\ req = EmptyBag /\ started < MaxRequests
       /\ \E u \in Users, c \in Courses : StartUnenroll(u, u, c)
    \/ /\ req = EmptyBag /\ started < MaxRequests
       /\ \E caller \in Users, c \in Courses, st \in StatusInputs :
             StartPatchStatus(caller, c, st)
    \/ NoResponsePending /\ \E q \in InFlight : EnrollFindExisting(q)
    \/ NoResponsePending /\ \E q \in InFlight : EnrollCountDocuments(q)
    \/ NoResponsePending /\ \E q \in InFlight : EnrollFindCourse(q)
    \/ NoResponsePending /\ \E q \in InFlight : EnrollInsertOne(q)
    \/ NoResponsePending /\ \E q \in InFlight : EnrollUpdateOne(q)
    \/ NoResponsePending /\ \E q \in InFlight : UnenrollDeleteOne(q)
    \/ NoResponsePending /\ \E q \in InFlight : UnenrollUpdateOne(q)
    \/ NoResponsePending /\ \E q \in InFlight : PatchUpdateOne(q)

SpecSeq == InitSeq /\ [][NextSeq]_vars

\* --------------------------------- two Enroll requests for the last seat
RaceCourse == "c1"

\* both requests have passed the synchronous checks and nothing else runs
RaceRequest(u) ==
    [NewRequest EXCEPT !.pc = "E_findExisting", !.kind = "enroll", !.caller = u,
                       !.role = GetUserRole(u), !.email = u, !.courseId = RaceCourse]

InitRace ==
    /\ users \in [Users -> {"student", NoUser}]
    /\ enrollments \in SUBSET {EnrollmentDoc(MaxRequestsOversell + 2, "u1", "c2"),
                               EnrollmentDoc(MaxRequestsOversell + 1, "u2", "c2")}
    /\ courses \in [Courses -> {CourseDoc(s, n, st, "u1") :
                        s \in 0..MaxSeats, n \in 0..2, st \in {"approved", Unset}}]
    /\ courses[RaceCourse].seats = 1
    /\ courses["c2"].enrollmentCount = Cardinality(enrollments)
    /\ courses["c2"].status = "approved"
    /\ initial = [c \in Courses |->
                    [seats |-> courses[c].seats,
                     enrollmentCount |-> courses[c].enrollmentCount]]
    /\ req = SetToBag({RaceRequest("u1"), RaceRequest("u2")})
    /\ started = 2
    /\ reviews = {}
    /\ storageUp = TRUE

NextRace == EnrollSteps

SpecRace == InitRace /\ [][NextRace]_vars

\* --------------------- course deletion next to Enroll and review requests
InitDelete ==
    /\ users \in {[u \in Users |-> IF u = "u1" THEN "instructor" ELSE r] :
                    r \in {"instructor", "admin"}}
    /\ enrollments \in {{}, {EnrollmentDoc(MaxRequestsOversell + 2, "u2", "c1")}}
    /\ reviews = {ReviewDoc(MaxRequestsOversell + 2, e.userEmail, e.courseId) :
                      e \in enrollments}
    /\ courses \in [Courses -> {CourseDoc(s, n, "approved", o) :
                        s \in 0..1, n \in 0..1, o \in Users}
                    \cup {NoCourse}]
    /\ courses["c1"].exists /\ courses["c1"].instructorEmail = "u1"
    /\ courses["c1"].enrollmentCount = Cardinality(enrollments)
    /\ courses["c2"].exists =>
          /\ courses["c2"].instructorEmail = "u2"
          /\ courses["c2"].seats = 1 /\ courses["c2"].enrollmentCount = 0
    /\ initial = [c \in Courses |->
                    [seats |-> courses[c].seats,
                     enrollmentCount |-> courses[c].enrollmentCount]]
    /\ req = EmptyBag
    /\ started = 0
    /\ storageUp = TRUE

NextDelete ==
    \/ \E q \in InFlight : Finish(q)
    \/ /\ NoResponsePending /\ started < MaxRequests
       /\ \E u \in Users, c \in Courses : StartEnroll(u, u, c, Title)
    \/ /\ NoResponsePending /\ started < MaxRequests
       /\ \E caller \in Users, c \in Courses \cup {BadId} : StartDeleteCourse(caller, c)
    \/ /\ NoResponsePending /\ started < MaxRequests
       /\ \E caller \in Users, c \in Courses \cup {BadId}, valid \in BOOLEAN :
             StartReview(caller, c, valid)
    \/ NoResponsePending /\ \E q \in InFlight : EnrollFindExisting(q)
    \/ NoResponsePending /\ \E q \in InFlight : EnrollCountDocuments(q)
    \/ NoResponsePending /\ \E q \in InFlight : EnrollFindCourse(q)
    \/ NoResponsePending /\ \E q \in InFlight : EnrollInsertOne(q)
    \/ NoResponsePending /\ \E q \in InFlight : EnrollUpdateOne(q)
    \/ NoResponsePending /\ \E q \in InFlight : EnrollDeleteOne(q)
    \/ NoResponsePending /\ \E q \in InFlight : DeleteFindOne(q)
    \/ NoResponsePending /\ \E q \in InFlight : DeleteDeleteOne(q)
    \/ NoResponsePending /\ \E q \in InFlight : DeleteEnrollments(q)
    \/ NoResponsePending /\ \E q \in InFlight : DeleteReviews(q)
    \/ NoResponsePending /\ \E q \in InFlight : ReviewFindEnrollment(q)
    \/ NoResponsePending /\ \E q \in InFlight : ReviewFindReview(q)
    \/ NoResponsePending /\ \E q \in InFlight : ReviewFindUser(q)
    \/ NoResponsePending /\ \E q \in InFlight : ReviewInsertOne(q)

SpecDelete == InitDelete /\ [][NextDelete]_vars

\* ------------- Enroll requests that lose their seat or their course
InitCompensate ==
    /\ users = [u \in Users |-> IF u = "u1" THEN "instructor" ELSE "admin"]
    /\ enrollments = {}
    /\ reviews = {}
    /\ courses \in {[c \in Courses |-> IF c = "c1"
                                       THEN CourseDoc(1, 0, st, "u1")
                                       ELSE NoCourse] : st \in {"approved", Unset}}
    /\ initial = [c \in Courses |->
                    [seats |-> courses[c].seats,
                     enrollmentCount |-> courses[c].enrollmentCount]]
    /\ req = EmptyBag
    /\ started = 0
    /\ storageUp = TRUE

NextCompensate ==
    \/ \E q \in InFlight : Finish(q)
    \/ /\ NoResponsePending /\ started < MaxRequests
       /\ \E u \in Users : StartEnroll(u, u, "c1", Title)
    \/ /\ NoResponsePending /\ started < MaxRequests
       /\ \E caller \in Users : StartDeleteCourse(caller, "c1")
    \/ NoResponsePending /\ \E q \in InFlight : EnrollFindExisting(q)
    \/ NoResponsePending /\ \E q \in InFlight : EnrollCountDocuments(q)
    \/ NoResponsePending /\ \E q \in InFlight : EnrollFindCourse(q)
    \/ NoResponsePending /\ \E q \in InFlight : EnrollInsertOne(q)
    \/ NoResponsePending /\ \E q \in InFlight : EnrollUpdateOne(q)
    \/ NoResponsePending /\ \E q \in InFlight : EnrollDeleteOne(q)
    \/ NoResponsePending /\ \E q \in InFlight : DeleteFindOne(q)
    \/ NoResponsePending /\ \E q \in InFlight : DeleteDeleteOne(q)
    \/ NoResponsePending /\ \E q \in InFlight : DeleteEnrollments(q)
    \/ NoResponsePending /\ \E q \in InFlight : DeleteReviews(q)

\* a handler goes on once its store call has returned, and a response leaves
FairCompensate ==
    /\ WF_vars(\E q \in InFlight : Finish(q))
    /\ WF_vars(NoResponsePending /\ \E q \in InFlight : EnrollDeleteOne(q))

SpecCompensate == InitCompensate /\ [][NextCompensate]_vars /\ FairCompensate

\* --------------- role changes, profile writes and role-gated requests
InitRoles ==
    /\ users \in {[u \in Users |-> IF u = "u2" THEN "admin" ELSE r] :
                    r \in {NoUser, NoRole, "student", "instructor"}}
    /\ courses = [c \in Courses |-> IF c = "c1"
                                    THEN CourseDoc(1, 0, "pending", "u1")
                                    ELSE NoCourse]
    /\ enrollments = {}
    /\ reviews = {}
    /\ initial = [c \in Courses |->
                    [seats |-> courses[c].seats,
                     enrollmentCount |-> courses[c].enrollmentCount]]
    /\ req = EmptyBag
    /\ started = 0
    /\ storageUp = TRUE

NextRoles ==
    \/ \E q \in InFlight : Finish(q)
    \/ NoResponsePending /\ StorageFails
    \/ NoResponsePending /\ StorageRecovers
    \/ /\ NoResponsePending /\ started < MaxRequests
       /\ \E caller \in Users, email \in Users, role \in RoleInputs :
             StartSetRole(caller, email, role)
    \/ /\ NoResponsePending /\ started < MaxRequests
       /\ \E caller \in Users, email \in Users, complete \in BOOLEAN :
             StartPutUser(caller, email, complete)
    \/ /\ NoResponsePending /\ started < MaxRequests
       /\ \E token \in Tokens : StartListCourses(token)
    \/ /\ NoResponsePending /\ started < MaxRequests
       /\ \E caller \in Users, st \in {"approved", "archived"} :
             StartPatchStatus(caller, "c1", st)
    \/ /\ NoResponsePending /\ started < MaxRequests
       /\ \E caller \in Users, o \in {Missing, "u2"} :
             StartCreateCourse(caller, TRUE, Num(1), Num(1), o)
    \/ NoResponsePending /\ \E q \in InFlight : SetRoleUpdateOne(q)
    \/ NoResponsePending /\ \E q \in InFlight : PutUserUpdateOne(q)
    \/ NoResponsePending /\ \E q \in InFlight : ListFindUser(q)
    \/ NoResponsePending /\ \E q \in InFlight : ListFind(q)
    \/ NoResponsePending /\ \E q \in InFlight : PatchUpdateOne(q)
    \/ NoResponsePending /\ \E q \in InFlight : CreateInsertOne(q)

SpecRoles == InitRoles /\ [][NextRoles]_vars

\* ----------- Enroll and Unenroll requests with store calls that throw
InitFail ==
    /\ users = [u \in Users |-> "student"]
    /\ enrollments \in {{}, {EnrollmentDoc(MaxRequestsOversell + 2, "u1", "c1")}}
    /\ reviews = {}
    /\ courses \in {[c \in Courses |-> IF c = "c1"
                                       THEN CourseDoc(s, Cardinality(enrollments),
                                                      "approved", "u1")
                                       ELSE NoCourse] : s \in 0..1}
    /\ initial = [c \in Courses |->
                    [seats |-> courses[c].seats,
                     enrollmentCount |-> courses[c].enrollmentCount]]
    /\ req = EmptyBag
    /\ started = 0
    /\ storageUp = TRUE

NextFail ==
    \/ \E q \in InFlight : Finish(q)
    \/ NoResponsePending /\ StorageFails
    \/ NoResponsePending /\ StorageRecovers
    \/ /\ NoResponsePending /\ started < MaxRequests
       /\ \E u \in Users : StartEnroll(u, u, "c1", Title)
    \/ /\ NoResponsePending /\ started < MaxRequests
       /\ \E u \in Users : StartUnenroll(u, u, "c1")
    \/ NoResponsePending /\ \E q \in InFlight : EnrollFindExisting(q)
    \/ NoResponsePending /\ \E q \in InFlight : EnrollCountDocuments(q)
    \/ NoResponsePending /\ \E q \in InFlight : EnrollFindCourse(q)
    \/ NoResponsePending /\ \E q \in InFlight : EnrollInsertOne(q)
    \/ NoResponsePending /\ \E q \in InFlight : EnrollUpdateOne(q)
    \/ NoResponsePending /\ \E q \in InFlight : EnrollDeleteOne(q)
    \/ NoResponsePending /\ \E q \in InFlight : UnenrollDeleteOne(q)
    \/ NoResponsePending /\ \E q \in InFlight : UnenrollUpdateOne(q)

SpecFail == InitFail /\ [][NextFail]_vars

\* ------------------- Unenroll requests against one enrollment document
InitUnenroll ==
    /\ users \in [Users -> {"student", NoUser}]
    /\ enrollments = {EnrollmentDoc(MaxRequestsOversell + 2, "u1", "c1")}
    /\ reviews = {}
    /\ courses \in [Courses -> {CourseDoc(sts, n, st, "u2") :
                        sts \in 0..MaxSeats, n \in 0..1, st \in {"approved", "pending"}}]
    /\ courses["c1"].enrollmentCount = 1
    /\ courses["c2"].enrollmentCount = 0 /\ courses["c2"].status = "approved"
    /\ initial = [c \in Courses |->
                    [seats |-> courses[c].seats,
                     enrollmentCount |-> courses[c].enrollmentCount]]
    /\ req = EmptyBag
    /\ started = 0
    /\ storageUp = TRUE

NextUnenroll ==
    \/ \E q \in InFlight : Finish(q)
    \/ /\ NoResponsePending /\ started < MaxRequests
       /\ \E c \in Courses : StartUnenroll("u1", "u1", c)
    \/ NoResponsePending /\ \E q \in InFlight : UnenrollDeleteOne(q)
    \/ NoResponsePending /\ \E q \in InFlight : UnenrollUpdateOne(q)

SpecUnenroll == InitUnenroll /\ [][NextUnenroll]_vars

\* ------------------------- Unenroll while the course is being deleted
InitGone ==
    /\ users = [u \in Users |-> IF u = "u1" THEN "instructor" ELSE "student"]
    /\ enrollments \in {{EnrollmentDoc(MaxRequestsOversell + 2, "u2", c)} : c \in Courses}
    /\ reviews = {}
    /\ courses \in [Courses -> {CourseDoc(sts, n, "approved", "u1") :
                        sts \in 0..MaxSeats, n \in 0..1}]
    /\ \A c \in Courses :
          courses[c].enrollmentCount =
              Cardinality({e \in enrollments : e.courseId = c})
    /\ initial = [c \in Courses |->
                    [seats |-> courses[c].seats,
                     enrollmentCount |-> courses[c].enrollmentCount]]
    /\ req = EmptyBag
    /\ started = 0
    /\ storageUp = TRUE

NextGone ==
    \/ \E q \in InFlight : Finish(q)
    \/ /\ NoResponsePending /\ started < MaxRequests
       /\ \E c \in Courses : StartUnenroll("u2", "u2", c)
    \/ /\ NoResponsePending /\ started < MaxRequests
       /\ \E c \in Courses : StartDeleteCourse("u1", c)
    \/ NoResponsePending /\ \E q \in InFlight : UnenrollDeleteOne(q)
    \/ NoResponsePending /\ \E q \in InFlight : UnenrollUpdateOne(q)
    \/ NoResponsePending /\ \E q \in InFlight : DeleteFindOne(q)
    \/ NoResponsePending /\ \E q \in InFlight : DeleteDeleteOne(q)
    \/ NoResponsePending /\ \E q \in InFlight : DeleteEnrollments(q)
    \/ NoResponsePending /\ \E q \in InFlight : DeleteReviews(q)

SpecGone == InitGone /\ [][NextGone]_vars

\* ------------- Unenroll requests cut short by the store, Enroll requests after
EnrollInProgress == \E q \in InFlight : q.kind = "enroll"

InitPartial ==
    /\ users = [u \in Users |-> "student"]
    /\ enrollments \in (SUBSET {EnrollmentDoc(MaxRequestsOversell + 1, "u1", "c1"),
                                EnrollmentDoc(MaxRequestsOversell + 2, "u2", "c1")}) \ {{}}
    /\ reviews = {}
    /\ courses \in {[c \in Courses |-> IF c = "c1"
                                       THEN CourseDoc(s, Cardinality(enrollments),
                                                      st, "u1")
                                       ELSE NoCourse] :
                        s \in 0..MaxSeats, st \in {"approved", Unset}}
    /\ initial = [c \in Courses |->
                    [seats |-> courses[c].seats,
                     enrollmentCount |-> courses[c].enrollmentCount]]
    /\ req = EmptyBag
    /\ started = 0
    /\ storageUp = TRUE

NextPartial ==
    \/ \E q \in InFlight : Finish(q)
    \/ NoResponsePending /\ ~EnrollInProgress /\ StorageFails
    \/ NoResponsePending /\ StorageRecovers
    \/ /\ req = EmptyBag /\ storageUp /\ started < MaxRequests + 1
       /\ \E u \in Users : StartEnroll(u, u, "c1", Title)
    \/ /\ NoResponsePending /\ ~EnrollInProgress /\ started < MaxRequests
       /\ \E u \in Users : StartUnenroll(u, u, "c1")
    \/ NoResponsePending /\ \E q \in InFlight : EnrollFindExisting(q)
    \/ NoResponsePending /\ \E q \in InFlight : EnrollCountDocuments(q)
    \/ NoResponsePending /\ \E q \in InFlight : EnrollFindCourse(q)
    \/ NoResponsePending /\ \E q \in InFlight : EnrollInsertOne(q)
    \/ NoResponsePending /\ \E q \in InFlight : EnrollUpdateOne(q)
    \/ NoResponsePending /\ \E q \in InFlight : UnenrollDeleteOne(q)
    \/ NoResponsePending /\ \E q \in InFlight : UnenrollUpdateOne(q)

SpecPartial == InitPartial /\ [][NextPartial]_vars

\* --------- a course created by POST /courses that no admin has approved yet
\* c2 is the course that is created; the admin approves no course but c1
InitPending ==
    /\ InitStore
    /\ users = [u \in Users |-> IF u = "u1" THEN "instructor" ELSE "admin"]
    /\ enrollments = {}
    /\ courses["c1"].exists /\ courses["c1"].seats = 1
    /\ courses["c1"].status \in {"approved", "pending"}
    /\ ~courses["c2"].exists

NextPending ==
    \/ \E q \in InFlight : Finish(q)
    \/ /\ NoResponsePending /\ started < MaxRequests
       /\ \E u \in Users, c \in Courses : StartEnroll(u, u, c, Title)
    \/ /\ NoResponsePending /\ started < MaxRequests
       /\ \E caller \in Users, seats \in {Num(1), Text}, o \in {Missing, "u2"} :
             StartCreateCourse(caller, TRUE, seats, Num(1), o)
    \/ /\ NoResponsePending /\ started < MaxRequests
       /\ \E caller \in Users, c \in Courses, body \in UpdateBodies :
             StartUpdateCourse(caller, c, body)
    \/ /\ NoResponsePending /\ started < MaxRequests
       /\ \E caller \in Users, c \in Courses, st \in StatusInputs :
             /\ c = "c2" => st /= "approved"
             /\ StartPatchStatus(caller, c, st)
    \/ NoResponsePending /\ \E q \in InFlight : EnrollFindExisting(q)
    \/ NoResponsePending /\ \E q \in InFlight : EnrollCountDocuments(q)
    \/ NoResponsePending /\ \E q \in InFlight : EnrollFindCourse(q)
    \/ NoResponsePending /\ \E q \in InFlight : EnrollInsertOne(q)
    \/ NoResponsePending /\ \E q \in InFlight : EnrollUpdateOne(q)
    \/ NoResponsePending /\ \E q \in InFlight : EnrollDeleteOne(q)
    \/ NoResponsePending /\ \E q \in InFlight : CreateInsertOne(q)
    \/ NoResponsePending /\ \E q \in InFlight : UpdateFindOne(q)
    \/ NoResponsePending /\ \E q \in InFlight : UpdateUpdateOne(q)
    \/ NoResponsePending /\ \E q \in InFlight : PatchUpdateOne(q)

SpecPending == InitPending /\ [][NextPending]_vars

\* ------------------------------ Enroll requests served by src/index.js
\* every user has one request in progress at most
InitSimple ==
    /\ InitStore
    /\ users = [u \in Users |-> "student"]
    /\ courses["c1"].exists
    /\ \A c \in Courses : courses[c].exists => courses[c].status = "approved"

NextSimple ==
    \/ \E q \in InFlight : Finish(q)
    \/ /\ NoResponsePending /\ started < MaxRequests
       /\ \E caller \in Users, u \in Users, c \in Courses \cup {BadId} :
             /\ \A p \in InFlight : p.caller /= caller
             /\ SimpleStartEnroll(caller, u, c)
    \/ NoResponsePending /\ \E q \in InFlight : SimpleFindExisting(q)
    \/ NoResponsePending /\ \E q \in InFlight : SimpleFind(q)
    \/ NoResponsePending /\ \E q \in InFlight : SimpleFindCourse(q)
    \/ NoResponsePending /\ \E q \in InFlight : SimpleInsertOne(q)
    \/ NoResponsePending /\ \E q \in InFlight : SimpleUpdateOne(q)

SpecSimple == InitSimple /\ [][NextSimple]_vars

\* ===================================================================== claims
\* the live enrollment documents of a pair, of a user, of a course
RecordsOf(u, c) == {e \in enrollments : e.userEmail = u /\ e.courseId = c}
RecordsOfUser(u) == {e \in enrollments : e.userEmail = u}
RecordsOfCourse(c) == {e \in enrollments : e.courseId = c}

\* request q takes a step
Moves(q) == CopiesIn(q, req') < CopiesIn(q, req)

\* no Enroll or Unenroll request is in progress
Quiescent == \A q \in InFlight : q.pc = "done"

InitialCapacity(c) == initial[c].seats + initial[c].enrollmentCount

\* C1: under Enroll and Unenroll requests in any interleaving, seats +
\* enrollmentCount of every course stays what it was at the start.
C1_Conservation ==
    \A c \in Courses : courses[c].exists =>
        courses[c].seats + courses[c].enrollmentCount = InitialCapacity(c)

\* an Unenroll has released a seat of a course that Enrolls had taken seats from
C1_Witness ==
    \E q \in InFlight :
        /\ q.result = "Unenrolled"
        /\ courses[q.courseId].seats < initial[q.courseId].seats

\* C3: with no Enroll or Unenroll in progress, a course whose capacity was
\* not edited has at most as many live enrollment documents as it had seats.
C3_NeverOversold ==
    Quiescent =>
        \A c \in Courses : Cardinality(RecordsOfCourse(c)) <= InitialCapacity(c)

\* C4: no user ever has more than 3 live enrollment documents.
C4_QuotaRespected ==
    \A u \in Users : Cardinality(RecordsOfUser(u)) <= 3

\* C5: no (userEmail, courseId) pair ever has more than one live document.
C5_OnePerPair ==
    \A u \in Users, c \in Courses : Cardinality(RecordsOf(u, c)) <= 1

\* C7: an Enroll whose duplicate check finds a live enrollment of the caller
\* for the course answers AlreadyEnrolled and has written nothing.
C7_AlreadyEnrolledStep ==
    \A q \in InFlight :
        (q.pc = "E_findExisting" /\ RecordsOf(q.email, q.courseId) /= {} /\ Moves(q))
        => /\ BagIn([q EXCEPT !.pc = "done", !.result = "AlreadyEnrolled"], req')
           /\ q.insertedId = NoId
           /\ courses' = courses
           /\ enrollments' = enrollments

C7_AlreadyEnrolled == [][C7_AlreadyEnrolledStep]_vars

\* the second Enroll of an enrolled user has been answered
C7_Witness ==
    \E q \in InFlight :
        /\ q.result = "AlreadyEnrolled"
        /\ RecordsOf(q.email, q.courseId) /= {}
        /\ started >= 2

\* C8: a successful Unenroll removes exactly one document, which is of the
\* pair, then adds 1 to seats and takes 1 from enrollmentCount of that course,
\* and touches no other course and no other enrollment.
C8_UnenrollStep ==
    \A q \in InFlight :
        /\ (q.pc = "U_deleteOne" /\ RecordsOf(q.email, q.courseId) /= {} /\ Moves(q))
           => /\ \E e \in RecordsOf(q.email, q.courseId) :
                    enrollments' = enrollments \ {e}
              /\ courses' = courses
        /\ (q.pc = "U_updateOne" /\ courses[q.courseId].exists /\ Moves(q))
           => /\ BagIn([q EXCEPT !.pc = "done", !.result = "Unenrolled"], req')
              /\ courses'[q.courseId].seats = courses[q.courseId].seats + 1
              /\ courses'[q.courseId].enrollmentCount =
                     courses[q.courseId].enrollmentCount - 1
              /\ \A c \in Courses \ {q.courseId} : courses'[c] = courses[c]
              /\ enrollments' = enrollments

C8_UnenrollEffect == [][C8_UnenrollStep]_vars

\* an Unenroll was answered with success: the document is gone, the seat is back
C8_Witness ==
    \E q \in InFlight :
        /\ q.result = "Unenrolled"
        /\ RecordsOf(q.email, q.courseId) = {}
        /\ courses[q.courseId].seats = initial[q.courseId].seats + 1
        /\ courses[q.courseId].enrollmentCount = initial[q.courseId].enrollmentCount - 1

\* C6: two users race for the last seat of an approved course: when both
\* calls have returned, exactly one was admitted, seats is 0, enrollmentCount
\* is one more than before, the other call got NoSeatsAvailable or
\* SeatConflict, and the refused caller has no enrollment document.
C6_LastSeatRace ==
    (\A q \in InFlight : q.pc = "done") =>
        \E w \in InFlight, l \in InFlight :
            /\ w /= l
            /\ w.result = "Enrolled"
            /\ l.result \in {"NoSeatsAvailable", "SeatConflict"}
            /\ courses[RaceCourse].seats = 0
            /\ courses[RaceCourse].enrollmentCount =
                   initial[RaceCourse].enrollmentCount + 1
            /\ Cardinality(RecordsOf(w.email, RaceCourse)) = 1
            /\ RecordsOf(l.email, RaceCourse) = {}

\* both calls have returned and the loser lost at the conditional update
C6_Witness ==
    /\ \A q \in InFlight : q.pc = "done"
    /\ \E q \in InFlight : q.result = "SeatConflict"
    /\ \E q \in InFlight : q.result = "Enrolled"

\* C2: under Enroll, Unenroll, course creation and course update requests in
\* any interleaving, no course ever has a negative seats.
C2_SeatsNonNegative ==
    \A c \in Courses : courses[c].exists => courses[c].seats >= 0

\* an update has set seats to 0 under an Enroll that passed the pre-check and
\* is about to try the conditional update
C2_Witness ==
    \E q \in InFlight, p \in InFlight :
        /\ q.pc = "E_updateOne"
        /\ p.result = "Updated" /\ p.courseId = q.courseId /\ p.body.seats = Num(0)
        /\ courses[q.courseId].seats = 0

\* C9: with one request at a time, an Enroll that gets as far as the status
\* check is refused with CourseNotApproved, having inserted nothing, when the
\* status is pending or rejected; when the status is approved or absent it is
\* admitted unless the course has no seat; and the step that refuses with
\* CourseNotApproved changes no course and no enrollment.
C9_Decision ==
    \A q \in InFlight :
      /\ q.pc /= "E_deleteOne"
      /\
        (/\ q.kind = "enroll" /\ q.pc = "done"
         /\ q.result \notin {"InvalidInput", "Forbidden", "AlreadyEnrolled",
                             "QuotaExceeded", "NotFound"})
        => IF courses[q.courseId].status \in {"pending", "rejected"}
           THEN q.result = "CourseNotApproved" /\ q.insertedId = NoId
           ELSE \/ /\ q.result = "Enrolled"
                   /\ Cardinality(RecordsOf(q.email, q.courseId)) = 1
                \/ /\ q.result = "NoSeatsAvailable"
                   /\ courses[q.courseId].seats = 0

C9_RefusalStep ==
    \A q \in InFlight :
        (/\ q.pc = "E_findCourse" /\ Moves(q)
         /\ courses[q.courseId].exists
         /\ courses[q.courseId].status \in {"pending", "rejected"})
        => /\ BagIn([q EXCEPT !.pc = "done", !.result = "CourseNotApproved"], req')
           /\ courses' = courses
           /\ enrollments' = enrollments

C9_StatusDecision == [](C9_Decision) /\ [][C9_RefusalStep]_vars

\* an Enroll on a course without a status field has been admitted
C9_Witness ==
    \E q \in InFlight :
        /\ q.result = "Enrolled"
        /\ courses[q.courseId].status = Unset

\* C10: whenever an Enroll's seat reservation is applied to a course, the
\* status of the course at that moment is approved or absent.
C10_ReservationStep ==
    \A c \in Courses :
        (/\ courses'[c].seats = courses[c].seats - 1
         /\ courses'[c].enrollmentCount = courses[c].enrollmentCount + 1)
        => courses[c].status \in {"approved", Unset}

C10_AdmittedOnlyIfApproved == [][C10_ReservationStep]_vars

\* the review documents of a course
ReviewsOfCourse(c) == {r \in reviews : r.courseId = c}

\* request q has just been taken by the server
Arrives(q) == started' = started + 1 /\ CopiesIn(q, req') > CopiesIn(q, req)

\* C11: a course deletion by an instructor who does not own the course is
\* answered Forbidden and leaves courses, enrollments and reviews alone; the
\* same deletion by an admin passes the ownership check; and when a deletion
\* answers with success while no Enroll is in progress, the course, its
\* enrollments and its reviews are gone.
C11_OwnershipStep ==
    \A q \in InFlight :
        (q.pc = "D_findOne" /\ Moves(q) /\ courses[q.courseId].exists)
        => /\ (q.role = "instructor" /\ courses[q.courseId].instructorEmail /= q.caller)
              => /\ BagIn([q EXCEPT !.pc = "done", !.result = "Forbidden"], req')
                 /\ courses' = courses
                 /\ enrollments' = enrollments
                 /\ reviews' = reviews
           /\ q.role = "admin"
              => BagIn([q EXCEPT !.pc = "D_deleteOne"], req')

C11_Cascade ==
    \A q \in InFlight :
        (/\ q.kind = "delete" /\ q.result = "Deleted"
         /\ \A p \in InFlight : p.kind /= "enroll")
        => /\ ~courses[q.courseId].exists
           /\ RecordsOfCourse(q.courseId) = {}
           /\ ReviewsOfCourse(q.courseId) = {}

C11_DeletionGated == [](C11_Cascade) /\ [][C11_OwnershipStep]_vars

\* an admin has deleted another instructor's course that had an enrollment
\* and a review
C11_Witness ==
    \E q \in InFlight :
        /\ q.kind = "delete" /\ q.result = "Deleted" /\ q.role = "admin"
        /\ q.caller /= "u1" /\ q.courseId = "c1"
        /\ initial["c1"].enrollmentCount = 1
        /\ reviews = {}

\* C12: every live enrollment document references a course that exists.
C12_NoOrphanEnrollment ==
    \A e \in enrollments : courses[e.courseId].exists

\* C13: a course update by an instructor who does not own the course is
\* answered Forbidden and leaves the course alone; the owning instructor and
\* an admin pass the ownership check; the update that is then applied writes
\* the seats it was given and leaves status, enrollmentCount and
\* instructorEmail alone; and no step ever changes the instructorEmail of a
\* course.
C13_OwnershipStep ==
    \A q \in InFlight :
        /\ (q.pc = "P_findOne" /\ Moves(q) /\ courses[q.courseId].exists)
           => /\ courses' = courses
              /\ IF q.role = "instructor"
                    /\ courses[q.courseId].instructorEmail /= q.caller
                 THEN BagIn([q EXCEPT !.pc = "done", !.result = "Forbidden"], req')
                 ELSE \A p \in BagToSet(req') :
                         (p.kind = "update" /\ p.caller = q.caller /\ p.pc = "done")
                         => p.result /= "Forbidden"
        /\ (q.pc = "P_updateOne" /\ Moves(q) /\ courses[q.courseId].exists)
           => /\ courses'[q.courseId].status = courses[q.courseId].status
              /\ courses'[q.courseId].enrollmentCount =
                     courses[q.courseId].enrollmentCount
              /\ q.body.seats.t /= "undefined"
                 => courses'[q.courseId].seats = q.body.seats.v

C13_OwnerKept ==
    \A c \in Courses :
        courses[c].exists => courses'[c].instructorEmail = courses[c].instructorEmail

C13_UpdateOwnership == [][C13_OwnershipStep /\ C13_OwnerKept]_vars

\* an instructor's update of a course of another instructor has been refused
C13_Witness ==
    \E q \in InFlight :
        /\ q.kind = "update" /\ q.result = "Forbidden" /\ q.role = "instructor"
        /\ courses[q.courseId].exists
        /\ courses[q.courseId].instructorEmail /= q.caller

\* the routes behind verifyInstructor and behind verifyAdmin
InstructorGated == {"create", "update", "delete"}
AdminGated == {"status", "setRole"}

\* C14: verifyInstructor lets exactly instructor and admin through and
\* verifyAdmin exactly admin; a request of any other role is answered
\* Forbidden as it arrives, with the store unchanged, and no request is ever
\* inside a gated handler, or answered by one, with a role the gate refuses.
C14_Gates ==
    /\ \A r \in Roles \cup {"guest"} :
          /\ VerifyInstructor(r) <=> r \in {"instructor", "admin"}
          /\ VerifyAdmin(r) <=> r = "admin"
    /\ \A q \in InFlight :
          (q.pc /= "done" \/ q.result \notin {"Forbidden", "ServerError"})
          => /\ q.kind \in InstructorGated => q.role \in {"instructor", "admin"}
             /\ q.kind \in AdminGated => q.role = "admin"

C14_GateStep ==
    \A q \in BagToSet(req') :
        (Arrives(q) /\ q.kind \in InstructorGated \cup AdminGated /\ storageUp)
        => LET allowed == IF q.kind \in AdminGated THEN {"admin"}
                          ELSE {"instructor", "admin"}
           IN IF q.role \in allowed
              THEN q.result /= "Forbidden"
              ELSE /\ q.pc = "done" /\ q.result = "Forbidden"
                   /\ users' = users /\ courses' = courses
                   /\ enrollments' = enrollments /\ reviews' = reviews

C14_ExactGates == [](C14_Gates) /\ [][C14_GateStep]_vars

\* a student was refused at the instructor gate and an admin has passed it
C14_Witness ==
    /\ \E q \in InFlight :
          q.kind = "create" /\ q.role = "student" /\ q.result = "Forbidden"
    /\ \E q \in InFlight :
          q.kind = "create" /\ q.role = "admin" /\ q.pc = "C_insertOne"

\* the routes that run getUserRole
RoleResolving == {"enroll", "create", "update", "delete", "status", "setRole"}

\* C15: getUserRole gives a request the role stored in the caller's user
\* document, 'student' when there is no document or no role in it, and never
\* 'guest'; it answers ServerError exactly when the lookup throws.
C15_ResolveStep ==
    \A q \in BagToSet(req') :
        (Arrives(q) /\ q.kind \in RoleResolving)
        => IF storageUp
           THEN /\ q.result /= "ServerError"
                /\ q.role = IF users[q.caller] \in Roles
                            THEN users[q.caller] ELSE "student"
           ELSE q.pc = "done" /\ q.result = "ServerError" /\ q.role = "none"

C15_NeverGuest ==
    \A q \in InFlight : q.kind \in RoleResolving => q.role /= "guest"

C15_ResolveRole == [](C15_NeverGuest) /\ [][C15_ResolveStep]_vars

\* a later request of a caller without a user document was resolved to student
C15_Witness ==
    \E q \in InFlight :
        /\ q.kind \in RoleResolving /\ q.pc = "done"
        /\ users[q.caller] = NoUser /\ q.role = "student"
        /\ storageUp /\ started >= 2

\* the role getUserRole's expression gives for the stored document
StoredOrStudent(email) == IF users[email] \in Roles THEN users[email] ELSE "student"

\* C16, as stated: on the lenient path a request with a valid credential
\* enters the handler with the stored role, or student.
C16_ValidCredentialStep ==
    \A q \in InFlight :
        (q.pc = "L_findUser" /\ Moves(q))
        => BagIn([q EXCEPT !.pc = "L_find", !.role = StoredOrStudent(q.caller)], req')

C16_ValidCredentialRole == [][C16_ValidCredentialStep]_vars

\* C16, amended: the lenient path never answers the request itself.  Without
\* a credential, or with an invalid one, the request enters the handler as
\* guest; with a valid one it enters the handler with the stored role, or
\* student, when the lookup succeeds and as guest when the lookup throws; and
\* a request that has entered the handler leaves it with the answer, so it
\* enters it once.
C16_LenientStep ==
    /\ \A q \in BagToSet(req') :
          (Arrives(q) /\ q.kind = "list")
          => \/ q.caller = Missing /\ q.role = "guest" /\ q.pc = "L_find"
             \/ q.caller \in Users /\ q.pc = "L_findUser"
    /\ \A q \in InFlight :
          /\ (q.pc = "L_findUser" /\ Moves(q))
             => BagIn([q EXCEPT !.pc = "L_find",
                                !.role = IF storageUp THEN StoredOrStudent(q.caller)
                                         ELSE "guest"], req')
          /\ (q.pc = "L_find" /\ Moves(q))
             => \E p \in BagToSet(req') :
                   /\ p.pc = "done" /\ p.result \in {"Listed", "ServerError"}
                   /\ p = [q EXCEPT !.pc = "done", !.result = p.result,
                                    !.failedAt = p.failedAt]

C16_LenientIdentity == [][C16_LenientStep]_vars

\* a request with a valid credential of an admin is in the handler as guest
C16_Witness ==
    \E q \in InFlight :
        /\ q.kind = "list" /\ q.pc = "L_find"
        /\ q.caller \in Users /\ users[q.caller] = "admin"
        /\ q.role = "guest"

\* C17: a completed role change writes the new role into the user document,
\* nothing but a role change alters the role of an existing document, and a
\* gated request is authorized against the role the store holds when the
\* request comes in: it is refused exactly when that role is not allowed.
C17_RoleChangeStep ==
    /\ \A q \in InFlight :
          (q.pc = "R_updateOne" /\ Moves(q) /\ storageUp /\ users[q.email] /= NoUser)
          => /\ users'[q.email] = q.newRole
             /\ BagIn([q EXCEPT !.pc = "done", !.result = "RoleUpdated"], req')
    /\ \A u \in Users :
          (users[u] /= NoUser /\ users'[u] /= users[u])
          => \E q \in InFlight : q.pc = "R_updateOne" /\ q.email = u /\ Moves(q)
    /\ \A q \in BagToSet(req') :
          (Arrives(q) /\ q.kind \in InstructorGated \cup AdminGated /\ storageUp)
          => /\ q.role = StoredOrStudent(q.caller)
             /\ q.result = "Forbidden"
                <=> StoredOrStudent(q.caller) \notin
                       (IF q.kind \in AdminGated THEN {"admin"}
                        ELSE {"instructor", "admin"})

C17_FreshRole == [][C17_RoleChangeStep]_vars

\* the user who was admin at the start has been demoted and is refused at the
\* admin gate
C17_Witness ==
    \E q \in InFlight :
        /\ q.kind \in AdminGated /\ q.caller = "u2"
        /\ q.result = "Forbidden" /\ q.role \in {"student", "instructor"}

\* C18: the role of an existing user document changes only in the updateOne
\* of a role change whose caller was resolved to admin; a profile write
\* creates a missing document with role student and leaves the role of an
\* existing one alone; a user document appears only by a profile write; and a
\* role that is stored is student, instructor or admin.
C18_RoleWriteStep ==
    /\ \A u \in Users :
          /\ (users[u] /= NoUser /\ users'[u] /= users[u])
             => \E q \in InFlight :
                   /\ q.kind = "setRole" /\ q.role = "admin" /\ q.email = u
                   /\ q.pc = "R_updateOne" /\ Moves(q)
          /\ (users[u] = NoUser /\ users'[u] /= NoUser)
             => /\ users'[u] = "student"
                /\ \E q \in InFlight :
                      q.kind = "profile" /\ q.caller = u /\ q.email = u /\ Moves(q)
    /\ \A q \in InFlight :
          (q.pc = "W_updateOne" /\ Moves(q))
          => users' = IF storageUp /\ users[q.email] = NoUser
                      THEN [users EXCEPT ![q.email] = "student"]
                      ELSE users

C18_StoredRoles == \A u \in Users : users[u] \in Roles \cup {NoUser, NoRole}

C18_RoleOnlyByAdmin == [](C18_StoredRoles) /\ [][C18_RoleWriteStep]_vars

\* an instructor has rewritten the profile and is still an instructor
C18_Witness ==
    \E q \in InFlight :
        /\ q.kind = "profile" /\ q.result = "ProfileUpdated"
        /\ users[q.email] = "instructor"

\* C19, as stated: an Enroll or Unenroll whose caller differs from the target
\* userEmail is answered Forbidden.
C19_MismatchStep ==
    \A q \in BagToSet(req') :
        (Arrives(q) /\ q.kind \in {"enroll", "unenroll"} /\ q.caller /= q.email)
        => q.pc = "done" /\ q.result = "Forbidden"

C19_MismatchForbidden == [][C19_MismatchStep]_vars

\* C19, amended: an Enroll or Unenroll whose caller differs from the target
\* userEmail is refused as it arrives, with no enrollment and no course
\* changed: an Unenroll with Forbidden, an Enroll with Forbidden when its three
\* fields are there and with InvalidInput when one is missing; and every
\* enrollment document that is inserted carries the email of the caller of
\* the request that inserts it.
C19_IdentityStep ==
    /\ \A q \in BagToSet(req') :
          (Arrives(q) /\ q.kind \in {"enroll", "unenroll"} /\ q.caller /= q.email)
          => /\ q.pc = "done"
             /\ q.result = IF q.kind = "enroll"
                              /\ Missing \in {q.email, q.courseId, q.courseTitle}
                           THEN "InvalidInput" ELSE "Forbidden"
             /\ enrollments' = enrollments
             /\ courses' = courses
    /\ \A e \in enrollments' \ enrollments :
          \E q \in InFlight :
             /\ q.pc = "E_insertOne" /\ Moves(q)
             /\ q.caller = e.userEmail /\ q.email = e.userEmail

C19_OwnBehalf ==
    \A q \in InFlight :
        (q.kind \in {"enroll", "unenroll"} /\ q.pc /= "done") => q.caller = q.email

C19_IdentityMatch == [](C19_OwnBehalf) /\ [][C19_IdentityStep]_vars

\* an Enroll for another user, complete and with a valid course id, has been
\* refused
C19_Witness ==
    \E q \in InFlight :
        /\ q.kind = "enroll" /\ q.caller /= q.email /\ q.email \in Users
        /\ q.courseId \in Courses /\ q.courseTitle = Title
        /\ courses[q.courseId].seats > 0
        /\ q.result = "Forbidden"

\* C20: seats and enrollmentCount of an existing course change only in the
\* conditional reservation of an Enroll and in the release of an Unenroll.
C20_SeatsWriteStep ==
    \A c \in Courses :
        (/\ courses[c].exists /\ courses'[c].exists
         /\ \/ courses'[c].seats /= courses[c].seats
            \/ courses'[c].enrollmentCount /= courses[c].enrollmentCount)
        => \E q \in InFlight :
              /\ q.pc \in {"E_updateOne", "U_updateOne"}
              /\ q.courseId = c /\ Moves(q)

C20_SeatsFrame == [][C20_SeatsWriteStep]_vars

\* C21: an Enroll is answered with the error of the first failing check in
\* the order: fields present and courseId well-formed, identity match,
\* duplicate, quota, course existence, status, capacity.
C21_OrderStep ==
    /\ \A q \in BagToSet(req') :
          (Arrives(q) /\ q.kind = "enroll" /\ storageUp)
          => IF Missing \in {q.email, q.courseId, q.courseTitle}
                \/ ~ObjectIdIsValid(q.courseId)
             THEN q.pc = "done" /\ q.result = "InvalidInput"
             ELSE IF q.caller /= q.email
             THEN q.pc = "done" /\ q.result = "Forbidden"
             ELSE q.pc = "E_findExisting"
    /\ \A q \in InFlight :
          /\ (q.pc = "E_findExisting" /\ Moves(q))
             => BagIn(IF RecordsOf(q.email, q.courseId) /= {}
                      THEN [q EXCEPT !.pc = "done", !.result = "AlreadyEnrolled"]
                      ELSE [q EXCEPT !.pc = "E_countDocuments"], req')
          /\ (q.pc = "E_countDocuments" /\ Moves(q))
             => BagIn(IF Cardinality(RecordsOfUser(q.email)) >= 3
                      THEN [q EXCEPT !.pc = "done", !.result = "QuotaExceeded"]
                      ELSE [q EXCEPT !.pc = "E_findCourse"], req')
          /\ (q.pc = "E_findCourse" /\ Moves(q))
             => BagIn(IF ~courses[q.courseId].exists
                      THEN [q EXCEPT !.pc = "done", !.result = "NotFound"]
                      ELSE IF courses[q.courseId].status \in {"pending", "rejected"}
                      THEN [q EXCEPT !.pc = "done", !.result = "CourseNotApproved"]
                      ELSE IF courses[q.courseId].seats <= 0
                      THEN [q EXCEPT !.pc = "done", !.result = "NoSeatsAvailable"]
                      ELSE [q EXCEPT !.pc = "E_insertOne"], req')

C21_CheckOrder == [][C21_OrderStep]_vars

\* the enrollment document with _id i is in the collection
Live(i) == \E e \in enrollments : e.id = i

\* an Enroll whose conditional update modified nothing holds the document i
Compensating(i) == \E q \in InFlight : q.pc = "E_deleteOne" /\ q.insertedId = i

\* C22: an Enroll whose conditional update matches no document changes no
\* course in that step and goes on to the compensation; the compensation
\* removes the document the call inserted and no other, changes no course and
\* answers SeatConflict; and once the update has matched nothing, the inserted
\* document is eventually gone.
C22_CompensationStep ==
    \A q \in InFlight :
        /\ (q.pc = "E_updateOne" /\ Moves(q) /\ ~MatchesSeatsGtZero(courses[q.courseId]))
           => /\ BagIn([q EXCEPT !.pc = "E_deleteOne"], req')
              /\ courses' = courses /\ enrollments' = enrollments
        /\ (q.pc = "E_deleteOne" /\ Moves(q))
           => /\ BagIn([q EXCEPT !.pc = "done", !.result = "SeatConflict"], req')
              /\ courses' = courses
              /\ enrollments' = {e \in enrollments : e.id /= q.insertedId}
              /\ \A e \in enrollments \ enrollments' : e.userEmail = q.email

C22_Compensation ==
    /\ [][C22_CompensationStep]_vars
    /\ \A i \in IdPool : Compensating(i) ~> ~Live(i)

\* an Enroll whose course was deleted after its pre-check has answered
\* SeatConflict and its document is gone
C22_Witness ==
    \E q \in InFlight :
        /\ q.kind = "enroll" /\ q.result = "SeatConflict"
        /\ ~courses[q.courseId].exists
        /\ ~Live(q.insertedId)

\* C23: when the compensating deleteOne of an Enroll throws, the call is
\* answered ServerError, the document it inserted stays in the collection,
\* no course is changed, and the call does nothing more: it has answered.
C23_FailedCompensationStep ==
    \A q \in InFlight :
        (q.pc = "E_deleteOne" /\ Moves(q) /\ ~storageUp)
        => /\ BagIn([q EXCEPT !.pc = "done", !.result = "ServerError",
                              !.failedAt = "E_deleteOne"], req')
           /\ enrollments' = enrollments
           /\ courses' = courses

C23_AnsweredOnce ==
    \A q \in InFlight :
        q.failedAt /= "none" => q.pc = "done" /\ q.result = "ServerError"

C23_CompensationFailure == [](C23_AnsweredOnce) /\ [][C23_FailedCompensationStep]_vars

\* the compensation of an Enroll has thrown and its document is still there,
\* on a course with no seat left
C23_Witness ==
    \E q \in InFlight :
        /\ q.kind = "enroll" /\ q.failedAt = "E_deleteOne"
        /\ Live(q.insertedId)
        /\ courses[q.courseId].seats = 0

\* the number of requests in flight that have deleted a document of course c
\* and not yet released its seat
Releasing(c) ==
    LET at == {q \in InFlight : q.pc = "U_updateOne" /\ q.courseId = c}
        RECURSIVE Sum(_)
        Sum(S) == IF S = {} THEN 0
                  ELSE LET q == CHOOSE x \in S : TRUE
                       IN CopiesIn(q, req) + Sum(S \ {q})
    IN Sum(at)

\* C24: of any number of Unenroll requests against one enrollment document,
\* one deletes it and raises seats by 1 and lowers enrollmentCount by 1; every
\* other finds nothing, answers NotFound and changes nothing.
C24_OneRelease ==
    \A c \in Courses :
        LET gone == initial[c].enrollmentCount - Cardinality(RecordsOfCourse(c))
        IN /\ gone \in {0, 1}
           /\ Releasing(c) <= gone
           /\ courses[c].seats = initial[c].seats + gone - Releasing(c)
           /\ courses[c].enrollmentCount =
                  initial[c].enrollmentCount - gone + Releasing(c)
           /\ \A q \in InFlight :
                 (q.result = "Unenrolled" /\ q.courseId = c)
                 => gone = 1 /\ Releasing(c) = 0

C24_NotFoundStep ==
    \A q \in InFlight :
        (q.pc = "U_deleteOne" /\ Moves(q) /\ RecordsOf(q.email, q.courseId) = {})
        => /\ BagIn([q EXCEPT !.pc = "done", !.result = "NotFound"], req')
           /\ courses' = courses
           /\ enrollments' = enrollments

C24_SingleRelease == [](C24_OneRelease) /\ [][C24_NotFoundStep]_vars

\* a repeated Unenroll has found nothing after another one had released the seat
C24_Witness ==
    \E q \in InFlight :
        /\ q.kind = "unenroll" /\ q.result = "NotFound" /\ q.courseId = "c1"
        /\ courses["c1"].seats = initial["c1"].seats + 1
        /\ courses["c1"].enrollmentCount = 0

\* C25: an Unenroll that has deleted its enrollment document and whose course
\* is gone answers success; the release writes no course document at all.
C25_ReleaseStep ==
    \A q \in InFlight :
        (q.pc = "U_updateOne" /\ Moves(q) /\ storageUp)
        => /\ BagIn([q EXCEPT !.pc = "done", !.result = "Unenrolled"], req')
           /\ \A c \in Courses : c /= q.courseId => courses'[c] = courses[c]
           /\ ~courses[q.courseId].exists => courses' = courses

C25_ReleaseOfDeletedCourse == [][C25_ReleaseStep]_vars

\* an Unenroll has answered success for a course that is no longer there
C25_Witness ==
    \E q \in InFlight :
        /\ q.kind = "unenroll" /\ q.pc = "done" /\ q.result = "Unenrolled"
        /\ ~courses[q.courseId].exists
        /\ RecordsOf(q.email, q.courseId) = {}

\* C26: under Enroll and Unenroll requests in any interleaving, no course ever
\* has a negative enrollmentCount.
C26_CountNonNegative ==
    \A c \in Courses : courses[c].exists => courses[c].enrollmentCount >= 0

\* C27: an Unenroll that stops after deleting its enrollment document and
\* before the release leaves the course with live documents plus seats at
\* most the capacity it started with, and Enrolls that come later admit no
\* more users than that capacity.
C27_WithinCapacity ==
    \A c \in Courses : courses[c].exists =>
        /\ Cardinality(RecordsOfCourse(c)) <= InitialCapacity(c)
        /\ (\A q \in InFlight : q.kind = "enroll" => q.pc = "done")
           => Cardinality(RecordsOfCourse(c)) + courses[c].seats <= InitialCapacity(c)

C27_StoppedStep ==
    \A q \in InFlight :
        (q.pc = "U_updateOne" /\ Moves(q) /\ ~storageUp)
        => /\ BagIn([q EXCEPT !.pc = "done", !.result = "ServerError",
                              !.failedAt = "U_updateOne"], req')
           /\ courses' = courses
           /\ enrollments' = enrollments
           /\ RecordsOf(q.email, q.courseId) = {}

C27_PartialUnenroll == [](C27_WithinCapacity) /\ [][C27_StoppedStep]_vars

\* an Enroll has been admitted to a course that an Unenroll, stopped between
\* its two writes, had left one seat short
C27_Witness ==
    \E q \in InFlight :
        /\ q.kind = "enroll" /\ q.pc = "done" /\ q.result = "Enrolled"
        /\ Cardinality(RecordsOfCourse(q.courseId)) + courses[q.courseId].seats
               < InitialCapacity(q.courseId)

\* C28: with no request in progress and a store that never failed, a course
\* that began with enrollmentCount 0 has an enrollmentCount equal to the
\* number of its live enrollment documents.
C28_CountMatchesRecords ==
    Quiescent =>
        \A c \in Courses :
            (courses[c].exists /\ initial[c].enrollmentCount = 0)
            => courses[c].enrollmentCount = Cardinality(RecordsOfCourse(c))

\* C29: a course created by POST /courses starts with status 'pending' and
\* enrollmentCount 0; the status of a course changes only in the step of the
\* status operation, called by an admin, to pending, approved or rejected; and
\* no Enroll is admitted to the created course as long as no admin has set
\* its status to 'approved'.
C29_CreatedStep ==
    \A c \in Courses :
        (~courses[c].exists /\ courses'[c].exists)
        => /\ courses'[c].status = "pending"
           /\ courses'[c].enrollmentCount = 0
           /\ \E q \in InFlight : q.kind = "create" /\ q.pc = "C_insertOne" /\ Moves(q)

C29_StatusStep ==
    \A c \in Courses :
        (courses[c].exists /\ courses'[c].exists
         /\ courses'[c].status /= courses[c].status)
        => /\ courses'[c].status \in Statuses
           /\ \E q \in InFlight :
                 /\ q.kind = "status" /\ q.pc = "S_updateOne" /\ Moves(q)
                 /\ q.courseId = c /\ q.role = "admin"
                 /\ courses'[c].status = q.body.status

C29_NotAdmitted ==
    /\ RecordsOfCourse("c2") = {}
    /\ courses["c2"].exists =>
          /\ courses["c2"].status \in {"pending", "rejected"}
          /\ courses["c2"].enrollmentCount = 0
    /\ \A q \in InFlight :
          (q.kind = "enroll" /\ q.courseId = "c2")
          => /\ q.pc \notin {"E_insertOne", "E_updateOne", "E_deleteOne"}
             /\ q.result \notin {"Enrolled", "NoSeatsAvailable"}

C29_PendingUntilApproved ==
    /\ [](C29_NotAdmitted)
    /\ [][C29_CreatedStep /\ C29_StatusStep]_vars

\* an Enroll has been refused on the created course, which an admin has
\* rejected and which has a seat
C29_Witness ==
    \E q \in InFlight :
        /\ q.kind = "enroll" /\ q.courseId = "c2" /\ q.result = "CourseNotApproved"
        /\ courses["c2"].exists /\ courses["c2"].status = "rejected"
        /\ courses["c2"].seats > 0

\* C30: under the Enroll requests of src/index.js, users racing for the last
\* seat of a course included, no course ever has a negative seats and no
\* course has more live enrollment documents than it had capacity.
C30_SimpleLastSeat ==
    \A c \in Courses : courses[c].exists =>
        /\ courses[c].seats >= 0
        /\ Cardinality(RecordsOfCourse(c)) <= InitialCapacity(c)

====
